---------------------------- MODULE Spec2Model ----------------------------
(***************************************************************************)
(* Model of the dockable panel layout engine (PanelManager) of the Orbrya  *)
(* engine prototype.  The program state is the PanelManager instance, the  *)
(* panel elements it created, the two snap guide elements and the          *)
(* localStorage entry 'orbrya_panels'.  Every handler is a function from   *)
(* program state to program state; an action applies one handler (or the   *)
(* handlers one DOM event dispatches, in dispatch order).                  *)
(*                                                                         *)
(* Lengths are integers in units of 1/UnitsPerPx pixel, so that positions  *)
(* with a fractional pixel part exist and parseInt is not the identity.    *)
(***************************************************************************)
EXTENDS Integers, Sequences, FiniteSets, TLC

VARIABLES
    panels,        \* this.panels: the Map, as its entries in insertion order
    elements,      \* every panel element created so far, by creation number
    activePanel,   \* this.activePanel
    dragState,     \* this.dragState
    resizeState,   \* this.resizeState
    topZIndex,     \* this.topZIndex
    guides,        \* the elements #snap-guide-v and #snap-guide-h
    storage,       \* localStorage item 'orbrya_panels'
    savedStates,   \* this.savedStates
    emitted,       \* 'panelresize' events dispatched by the last handler
    events         \* number of events and host calls handled so far

vars == <<panels, elements, activePanel, dragState, resizeState, topZIndex,
          guides, storage, savedStates, emitted, events>>

---------------------------------------------------------------------------
(* Bounds of the model *)

\* length units per pixel (2: half pixels)
UnitsPerPx == 2
\* events and host calls handled over a run
MaxEvents == 5
\* workspace size in pixels, supplied by the host page
WorkspaceWidthPx == 1000
WorkspaceHeightPx == 800

Px(n) == n * UnitsPerPx
WorkspaceWidth == Px(WorkspaceWidthPx)
WorkspaceHeight == Px(WorkspaceHeightPx)

---------------------------------------------------------------------------
(* Program constants *)

baseZIndex == 100
snapThresholdPx == 15
snapThreshold == Px(snapThresholdPx)
DefaultX == 100
DefaultY == 100
DefaultWidth == 300
DefaultHeight == 400
DefaultMinWidth == 200
DefaultMinHeight == 150

---------------------------------------------------------------------------
(* Values *)

\* null / undefined, as a record so that it compares with records
Null == [null |-> TRUE]
\* no id (activePanel = null)
NoId == "null"
\* element.style.zIndex never assigned
NoZ == 0

PanelIds == {"a", "b"}
\* an id no panel is ever created with
UnknownId == "zz"
Directions == {"n", "s", "e", "w", "ne", "nw", "se", "sw"}

Abs(v) == IF v < 0 THEN -v ELSE v
Max(a, b) == IF a >= b THEN a ELSE b

\* String.prototype.includes on a handle name, for one letter
Includes(direction, letter) ==
    CASE letter = "n" -> direction \in {"n", "ne", "nw"}
      [] letter = "s" -> direction \in {"s", "se", "sw"}
      [] letter = "e" -> direction \in {"e", "ne", "se"}
      [] letter = "w" -> direction \in {"w", "nw", "sw"}

\* parseInt of a "<number>px" string: the integer part, truncated toward 0
ParseInt(v) ==
    IF v >= 0 THEN (v \div UnitsPerPx) * UnitsPerPx
    ELSE -(((-v) \div UnitsPerPx) * UnitsPerPx)

---------------------------------------------------------------------------
(* The program state as one record, and access to it *)

S ==
    [panels |-> panels, elements |-> elements, activePanel |-> activePanel,
     dragState |-> dragState, resizeState |-> resizeState,
     topZIndex |-> topZIndex, guides |-> guides, storage |-> storage,
     savedStates |-> savedStates, emitted |-> emitted]

\* Map.prototype.has / get / set / delete on the entries in insertion order
Ids(ps) == {ps[i].id : i \in 1..Len(ps)}
Has(ps, id) == id \in Ids(ps)
Get(ps, id) == ps[CHOOSE i \in 1..Len(ps) : ps[i].id = id]
MapSet(ps, entry) ==
    IF Has(ps, entry.id)
    THEN [i \in 1..Len(ps) |-> IF ps[i].id = entry.id THEN entry ELSE ps[i]]
    ELSE Append(ps, entry)
MapDelete(ps, id) == SelectSeq(ps, LAMBDA en : en.id # id)

\* the elements the registry holds
RegElements(ps) == {ps[i].element : i \in 1..Len(ps)}

\* classList.add / classList.remove on element el
AddClass(els, el, c) == [els EXCEPT ![el].classes = @ \cup {c}]
RemoveClass(els, el, c) == [els EXCEPT ![el].classes = @ \ {c}]

\* Element.getBoundingClientRect, relative to the workspace: an element that
\* is detached or hidden has an empty box, a maximized one fills the
\* workspace, any other one has the box its inline style gives it.
BoundingRect(els, el) ==
    IF ~els[el].inDOM \/ "hidden" \in els[el].classes
    THEN [left |-> 0, top |-> 0, width |-> 0, height |-> 0]
    ELSE IF "maximized" \in els[el].classes
    THEN [left |-> 0, top |-> 0, width |-> WorkspaceWidth, height |-> WorkspaceHeight]
    ELSE [left |-> els[el].left, top |-> els[el].top,
          width |-> els[el].width, height |-> els[el].height]

\* JSON.stringify of the layout document, and JSON.parse of a stored item
JSONStringify(doc) == [kind |-> "json", doc |-> doc]
JSONParses(item) == item.kind = "json"
JSONParse(item) == item.doc

---------------------------------------------------------------------------
(* PanelManager *)

\* savePanelStates()
savePanelStates(s) ==
    LET states == [id \in Ids(s.panels) |->
                    LET data == Get(s.panels, id)
                        rect == BoundingRect(s.elements, data.element)
                    IN [x |-> ParseInt(s.elements[data.element].left),
                        y |-> ParseInt(s.elements[data.element].top),
                        width |-> rect.width, height |-> rect.height,
                        minimized |-> data.state.minimized,
                        maximized |-> data.state.maximized]]
    IN [s EXCEPT !.storage = JSONStringify(states)]

\* loadPanelStates that answers a text it cannot parse with a layout of its
\* own
loadPanelStates_fallbackLayout(item) ==
    IF item.kind = "missing" THEN [defined |-> FALSE]
    ELSE IF JSONParses(item) THEN [defined |-> TRUE, doc |-> JSONParse(item)]
    ELSE [defined |-> TRUE,
          doc |-> [id \in {"a"} |->
                     [x |-> 0, y |-> 0, width |-> 0, height |-> 0,
                      minimized |-> FALSE, maximized |-> FALSE]]]

\* loadPanelStates(): the value of this.savedStates after construction
loadPanelStates(item) ==
    IF item.kind = "missing" THEN [defined |-> FALSE]
    ELSE IF JSONParses(item) THEN [defined |-> TRUE, doc |-> JSONParse(item)]
    ELSE [defined |-> FALSE]

\* getSavedState(id): this.savedStates?.[id]
getSavedState(saved, id) ==
    IF saved.defined /\ id \in DOMAIN saved.doc THEN saved.doc[id] ELSE Null

\* focusPanel that does not clear the class on the other panels
focusPanel_keepsOthers(s, id) ==
    IF Has(s.panels, id)
    THEN LET el == Get(s.panels, id).element
         IN [s EXCEPT
               !.topZIndex = s.topZIndex + 1,
               !.elements = [@ EXCEPT ![el].zIndex = s.topZIndex + 1,
                                      ![el].classes = @ \cup {"focused"}],
               !.activePanel = id]
    ELSE s

\* focusPanel that assigns the counter without incrementing it
focusPanel_sameZIndex(s, id) ==
    LET cleared == [el \in DOMAIN s.elements |->
                      IF el \in RegElements(s.panels)
                      THEN [s.elements[el] EXCEPT !.classes = @ \ {"focused"}]
                      ELSE s.elements[el]]
    IN IF Has(s.panels, id)
       THEN LET el == Get(s.panels, id).element
            IN [s EXCEPT
                  !.elements = [cleared EXCEPT
                                  ![el].zIndex = s.topZIndex,
                                  ![el].classes = @ \cup {"focused"}],
                  !.activePanel = id]
       ELSE [s EXCEPT !.elements = cleared]

\* focusPanel(id)
focusPanel(s, id) ==
    LET cleared == [el \in DOMAIN s.elements |->
                      IF el \in RegElements(s.panels)
                      THEN [s.elements[el] EXCEPT !.classes = @ \ {"focused"}]
                      ELSE s.elements[el]]
    IN IF Has(s.panels, id)
       THEN LET el == Get(s.panels, id).element
            IN [s EXCEPT
                  !.topZIndex = s.topZIndex + 1,
                  !.elements = [cleared EXCEPT
                                  ![el].zIndex = s.topZIndex + 1,
                                  ![el].classes = @ \cup {"focused"}],
                  !.activePanel = id]
       ELSE [s EXCEPT !.elements = cleared]

\* the workspace rules with the guide of the right and of the bottom edge at
\* the position the panel snaps to
SnapWorkspace_guideAtSnap(newX, newY, width, height) ==
    LET r0 == [snapX |-> newX, snapY |-> newY, snappedV |-> FALSE,
               snappedH |-> FALSE, snapPosV |-> 0, snapPosH |-> 0]
        r1 == IF Abs(newX) < snapThreshold
              THEN [r0 EXCEPT !.snapX = 0, !.snappedV = TRUE, !.snapPosV = 0]
              ELSE r0
        r2 == IF Abs(newX + width - WorkspaceWidth) < snapThreshold
              THEN [r1 EXCEPT !.snapX = WorkspaceWidth - width, !.snappedV = TRUE,
                              !.snapPosV = WorkspaceWidth - width]
              ELSE r1
        r3 == IF Abs(newY) < snapThreshold
              THEN [r2 EXCEPT !.snapY = 0, !.snappedH = TRUE, !.snapPosH = 0]
              ELSE r2
        r4 == IF Abs(newY + height - WorkspaceHeight) < snapThreshold
              THEN [r3 EXCEPT !.snapY = WorkspaceHeight - height, !.snappedH = TRUE,
                              !.snapPosH = WorkspaceHeight - height]
              ELSE r3
    IN r4

\* the workspace rules with the threshold included in the snapping distance
SnapWorkspace_inclusive(newX, newY, width, height) ==
    LET r0 == [snapX |-> newX, snapY |-> newY, snappedV |-> FALSE,
               snappedH |-> FALSE, snapPosV |-> 0, snapPosH |-> 0]
        r1 == IF Abs(newX) <= snapThreshold
              THEN [r0 EXCEPT !.snapX = 0, !.snappedV = TRUE, !.snapPosV = 0]
              ELSE r0
        r2 == IF Abs(newX + width - WorkspaceWidth) <= snapThreshold
              THEN [r1 EXCEPT !.snapX = WorkspaceWidth - width, !.snappedV = TRUE,
                              !.snapPosV = WorkspaceWidth]
              ELSE r1
        r3 == IF Abs(newY) <= snapThreshold
              THEN [r2 EXCEPT !.snapY = 0, !.snappedH = TRUE, !.snapPosH = 0]
              ELSE r2
        r4 == IF Abs(newY + height - WorkspaceHeight) <= snapThreshold
              THEN [r3 EXCEPT !.snapY = WorkspaceHeight - height, !.snappedH = TRUE,
                              !.snapPosH = WorkspaceHeight]
              ELSE r3
    IN r4

\* calculateSnap: the rules against the workspace edges
SnapWorkspace(newX, newY, width, height) ==
    LET r0 == [snapX |-> newX, snapY |-> newY, snappedV |-> FALSE,
               snappedH |-> FALSE, snapPosV |-> 0, snapPosH |-> 0]
        r1 == IF Abs(newX) < snapThreshold
              THEN [r0 EXCEPT !.snapX = 0, !.snappedV = TRUE, !.snapPosV = 0]
              ELSE r0
        r2 == IF Abs(newX + width - WorkspaceWidth) < snapThreshold
              THEN [r1 EXCEPT !.snapX = WorkspaceWidth - width, !.snappedV = TRUE,
                              !.snapPosV = WorkspaceWidth]
              ELSE r1
        r3 == IF Abs(newY) < snapThreshold
              THEN [r2 EXCEPT !.snapY = 0, !.snappedH = TRUE, !.snapPosH = 0]
              ELSE r2
        r4 == IF Abs(newY + height - WorkspaceHeight) < snapThreshold
              THEN [r3 EXCEPT !.snapY = WorkspaceHeight - height, !.snappedH = TRUE,
                              !.snapPosH = WorkspaceHeight]
              ELSE r3
    IN r4

\* the callback with the right-to-left rule placing the panel's left edge,
\* not its right edge, at the other panel's left edge
SnapSibling_rightToLeftAtLeft(r, rect, newX, newY, width, height) ==
    LET pLeft == rect.left
        pTop == rect.top
        pRight == pLeft + rect.width
        pBottom == pTop + rect.height
        x1 == IF Abs(newX - pRight) < snapThreshold
              THEN [r EXCEPT !.snapX = pRight, !.snappedV = TRUE, !.snapPosV = pRight]
              ELSE r
        x2 == IF Abs(newX + width - pLeft) < snapThreshold
              THEN [x1 EXCEPT !.snapX = pLeft, !.snappedV = TRUE, !.snapPosV = pLeft]
              ELSE x1
        x3 == IF Abs(newX - pLeft) < snapThreshold
              THEN [x2 EXCEPT !.snapX = pLeft, !.snappedV = TRUE, !.snapPosV = pLeft]
              ELSE x2
        x4 == IF Abs(newX + width - pRight) < snapThreshold
              THEN [x3 EXCEPT !.snapX = pRight - width, !.snappedV = TRUE, !.snapPosV = pRight]
              ELSE x3
        y1 == IF Abs(newY - pBottom) < snapThreshold
              THEN [x4 EXCEPT !.snapY = pBottom, !.snappedH = TRUE, !.snapPosH = pBottom]
              ELSE x4
        y2 == IF Abs(newY + height - pTop) < snapThreshold
              THEN [y1 EXCEPT !.snapY = pTop - height, !.snappedH = TRUE, !.snapPosH = pTop]
              ELSE y1
        y3 == IF Abs(newY - pTop) < snapThreshold
              THEN [y2 EXCEPT !.snapY = pTop, !.snappedH = TRUE, !.snapPosH = pTop]
              ELSE y2
        y4 == IF Abs(newY + height - pBottom) < snapThreshold
              THEN [y3 EXCEPT !.snapY = pBottom - height, !.snappedH = TRUE, !.snapPosH = pBottom]
              ELSE y3
    IN y4

\* the callback with each rule applying only when the two boxes overlap
\* along the other axis
SnapSibling_overlapOnly(r, rect, newX, newY, width, height) ==
    LET pLeft == rect.left
        pTop == rect.top
        pRight == pLeft + rect.width
        pBottom == pTop + rect.height
        overV == newY < pBottom /\ newY + height > pTop
        overH == newX < pRight /\ newX + width > pLeft
        x1 == IF overV /\ Abs(newX - pRight) < snapThreshold
              THEN [r EXCEPT !.snapX = pRight, !.snappedV = TRUE, !.snapPosV = pRight]
              ELSE r
        x2 == IF overV /\ Abs(newX + width - pLeft) < snapThreshold
              THEN [x1 EXCEPT !.snapX = pLeft - width, !.snappedV = TRUE, !.snapPosV = pLeft]
              ELSE x1
        x3 == IF overV /\ Abs(newX - pLeft) < snapThreshold
              THEN [x2 EXCEPT !.snapX = pLeft, !.snappedV = TRUE, !.snapPosV = pLeft]
              ELSE x2
        x4 == IF overV /\ Abs(newX + width - pRight) < snapThreshold
              THEN [x3 EXCEPT !.snapX = pRight - width, !.snappedV = TRUE, !.snapPosV = pRight]
              ELSE x3
        y1 == IF overH /\ Abs(newY - pBottom) < snapThreshold
              THEN [x4 EXCEPT !.snapY = pBottom, !.snappedH = TRUE, !.snapPosH = pBottom]
              ELSE x4
        y2 == IF overH /\ Abs(newY + height - pTop) < snapThreshold
              THEN [y1 EXCEPT !.snapY = pTop - height, !.snappedH = TRUE, !.snapPosH = pTop]
              ELSE y1
        y3 == IF overH /\ Abs(newY - pTop) < snapThreshold
              THEN [y2 EXCEPT !.snapY = pTop, !.snappedH = TRUE, !.snapPosH = pTop]
              ELSE y2
        y4 == IF overH /\ Abs(newY + height - pBottom) < snapThreshold
              THEN [y3 EXCEPT !.snapY = pBottom - height, !.snappedH = TRUE, !.snapPosH = pBottom]
              ELSE y3
    IN y4

\* calculateSnap: the body of the forEach callback for one other panel whose
\* box is rect
SnapSibling(r, rect, newX, newY, width, height) ==
    LET pLeft == rect.left
        pTop == rect.top
        pRight == pLeft + rect.width
        pBottom == pTop + rect.height
        x1 == IF Abs(newX - pRight) < snapThreshold
              THEN [r EXCEPT !.snapX = pRight, !.snappedV = TRUE, !.snapPosV = pRight]
              ELSE r
        x2 == IF Abs(newX + width - pLeft) < snapThreshold
              THEN [x1 EXCEPT !.snapX = pLeft - width, !.snappedV = TRUE, !.snapPosV = pLeft]
              ELSE x1
        x3 == IF Abs(newX - pLeft) < snapThreshold
              THEN [x2 EXCEPT !.snapX = pLeft, !.snappedV = TRUE, !.snapPosV = pLeft]
              ELSE x2
        x4 == IF Abs(newX + width - pRight) < snapThreshold
              THEN [x3 EXCEPT !.snapX = pRight - width, !.snappedV = TRUE, !.snapPosV = pRight]
              ELSE x3
        y1 == IF Abs(newY - pBottom) < snapThreshold
              THEN [x4 EXCEPT !.snapY = pBottom, !.snappedH = TRUE, !.snapPosH = pBottom]
              ELSE x4
        y2 == IF Abs(newY + height - pTop) < snapThreshold
              THEN [y1 EXCEPT !.snapY = pTop - height, !.snappedH = TRUE, !.snapPosH = pTop]
              ELSE y1
        y3 == IF Abs(newY - pTop) < snapThreshold
              THEN [y2 EXCEPT !.snapY = pTop, !.snappedH = TRUE, !.snapPosH = pTop]
              ELSE y2
        y4 == IF Abs(newY + height - pBottom) < snapThreshold
              THEN [y3 EXCEPT !.snapY = pBottom - height, !.snappedH = TRUE, !.snapPosH = pBottom]
              ELSE y3
    IN y4

\* calculateSnap: this.panels.forEach from entry i on
RECURSIVE SnapPanels(_, _, _, _, _, _, _, _, _)
SnapPanels(ps, els, i, r, panelId, newX, newY, width, height) ==
    IF i > Len(ps) THEN r
    ELSE LET el == ps[i].element
             skip == \/ ps[i].id = panelId
                     \/ "hidden" \in els[el].classes
                     \/ "maximized" \in els[el].classes
             next == IF skip THEN r
                     ELSE SnapSibling(r, BoundingRect(els, el), newX, newY, width, height)
         IN SnapPanels(ps, els, i + 1, next, panelId, newX, newY, width, height)

\* calculateSnap that compares only with panels that were given a zIndex
calculateSnap_stackedOnly(s, panelId, newX, newY, width, height) ==
    SnapPanels(SelectSeq(s.panels, LAMBDA entry : s.elements[entry.element].zIndex # NoZ),
               s.elements, 1, SnapWorkspace(newX, newY, width, height),
               panelId, newX, newY, width, height)

\* calculateSnap that compares the moving panel with its own box too
calculateSnap_includesSelf(s, panelId, newX, newY, width, height) ==
    SnapPanels(s.panels, s.elements, 1, SnapWorkspace(newX, newY, width, height),
               NoId, newX, newY, width, height)

\* calculateSnap that visits the registry from its last entry to its first
calculateSnap_lastEntryFirst(s, panelId, newX, newY, width, height) ==
    SnapPanels([i \in 1..Len(s.panels) |-> s.panels[Len(s.panels) + 1 - i]],
               s.elements, 1, SnapWorkspace(newX, newY, width, height),
               panelId, newX, newY, width, height)

\* calculateSnap(panelId, newX, newY, width, height)
calculateSnap(s, panelId, newX, newY, width, height) ==
    SnapPanels(s.panels, s.elements, 1, SnapWorkspace(newX, newY, width, height),
               panelId, newX, newY, width, height)

\* a destructured option of the config object, with its default
Opt(config, field, default) ==
    IF field \in DOMAIN config THEN config[field] ELSE default

\* createPanel that marks the new panel focused
createPanel_focused(s, config) ==
    LET el == Len(s.elements) + 1
        minWidth == Opt(config, "minWidth", Px(DefaultMinWidth))
        minHeight == Opt(config, "minHeight", Px(DefaultMinHeight))
        resizable == Opt(config, "resizable", TRUE)
        closable == Opt(config, "closable", TRUE)
        panel == [id |-> config.id,
                  left |-> Opt(config, "x", Px(DefaultX)),
                  top |-> Opt(config, "y", Px(DefaultY)),
                  width |-> Opt(config, "width", Px(DefaultWidth)),
                  height |-> Opt(config, "height", Px(DefaultHeight)),
                  zIndex |-> NoZ, classes |-> {"focused"}, inDOM |-> TRUE,
                  resizable |-> resizable, closable |-> closable]
        entry == [id |-> config.id, element |-> el,
                  config |-> [minWidth |-> minWidth, minHeight |-> minHeight,
                              resizable |-> resizable, closable |-> closable],
                  state |-> [minimized |-> FALSE, maximized |-> FALSE,
                             prevBounds |-> Null]]
    IN [s EXCEPT !.elements = Append(s.elements, panel),
                 !.panels = MapSet(s.panels, entry)]

\* createPanel that keeps the state object of an entry it replaces
createPanel_keepsState(s, config) ==
    LET el == Len(s.elements) + 1
        minWidth == Opt(config, "minWidth", Px(DefaultMinWidth))
        minHeight == Opt(config, "minHeight", Px(DefaultMinHeight))
        resizable == Opt(config, "resizable", TRUE)
        closable == Opt(config, "closable", TRUE)
        panel == [id |-> config.id,
                  left |-> Opt(config, "x", Px(DefaultX)),
                  top |-> Opt(config, "y", Px(DefaultY)),
                  width |-> Opt(config, "width", Px(DefaultWidth)),
                  height |-> Opt(config, "height", Px(DefaultHeight)),
                  zIndex |-> NoZ, classes |-> {}, inDOM |-> TRUE,
                  resizable |-> resizable, closable |-> closable]
        entry == [id |-> config.id, element |-> el,
                  config |-> [minWidth |-> minWidth, minHeight |-> minHeight,
                              resizable |-> resizable, closable |-> closable],
                  state |-> IF Has(s.panels, config.id)
                            THEN Get(s.panels, config.id).state
                            ELSE [minimized |-> FALSE, maximized |-> FALSE,
                                  prevBounds |-> Null]]
    IN [s EXCEPT !.elements = Append(s.elements, panel),
                 !.panels = MapSet(s.panels, entry)]

\* createPanel that gives the panel the flags saved for its id
createPanel_restoresFlags(s, config) ==
    LET el == Len(s.elements) + 1
        saved == getSavedState(s.savedStates, config.id)
        minWidth == Opt(config, "minWidth", Px(DefaultMinWidth))
        minHeight == Opt(config, "minHeight", Px(DefaultMinHeight))
        resizable == Opt(config, "resizable", TRUE)
        closable == Opt(config, "closable", TRUE)
        panel == [id |-> config.id,
                  left |-> Opt(config, "x", Px(DefaultX)),
                  top |-> Opt(config, "y", Px(DefaultY)),
                  width |-> Opt(config, "width", Px(DefaultWidth)),
                  height |-> Opt(config, "height", Px(DefaultHeight)),
                  zIndex |-> NoZ, classes |-> {}, inDOM |-> TRUE,
                  resizable |-> resizable, closable |-> closable]
        entry == [id |-> config.id, element |-> el,
                  config |-> [minWidth |-> minWidth, minHeight |-> minHeight,
                              resizable |-> resizable, closable |-> closable],
                  state |-> [minimized |-> saved # Null /\ saved.minimized,
                             maximized |-> saved # Null /\ saved.maximized,
                             prevBounds |-> Null]]
    IN [s EXCEPT !.elements = Append(s.elements, panel),
                 !.panels = MapSet(s.panels, entry)]

\* createPanel(config)
createPanel(s, config) ==
    LET el == Len(s.elements) + 1
        minWidth == Opt(config, "minWidth", Px(DefaultMinWidth))
        minHeight == Opt(config, "minHeight", Px(DefaultMinHeight))
        resizable == Opt(config, "resizable", TRUE)
        closable == Opt(config, "closable", TRUE)
        panel == [id |-> config.id,
                  left |-> Opt(config, "x", Px(DefaultX)),
                  top |-> Opt(config, "y", Px(DefaultY)),
                  width |-> Opt(config, "width", Px(DefaultWidth)),
                  height |-> Opt(config, "height", Px(DefaultHeight)),
                  zIndex |-> NoZ, classes |-> {}, inDOM |-> TRUE,
                  resizable |-> resizable, closable |-> closable]
        entry == [id |-> config.id, element |-> el,
                  config |-> [minWidth |-> minWidth, minHeight |-> minHeight,
                              resizable |-> resizable, closable |-> closable],
                  state |-> [minimized |-> FALSE, maximized |-> FALSE,
                             prevBounds |-> Null]]
    IN [s EXCEPT !.elements = Append(s.elements, panel),
                 !.panels = MapSet(s.panels, entry)]

\* startDrag(e, panel, id), e at (clientX, clientY)
startDrag(s, clientX, clientY, panel, id) ==
    LET f == focusPanel(s, id)
        rect == BoundingRect(f.elements, panel)
    IN [f EXCEPT
          !.dragState = [panel |-> panel, id |-> id,
                         startX |-> clientX, startY |-> clientY,
                         startLeft |-> rect.left, startTop |-> rect.top,
                         width |-> rect.width, height |-> rect.height],
          !.elements = AddClass(f.elements, panel, "dragging")]

\* startResize(e, panel, id, direction); reading the config of an id that is
\* no longer registered throws after focusPanel has run
startResize(s, clientX, clientY, panel, id, direction) ==
    LET f == focusPanel(s, id)
        rect == BoundingRect(f.elements, panel)
    IN IF ~Has(f.panels, id) THEN f
       ELSE [f EXCEPT
               !.resizeState = [panel |-> panel, id |-> id, direction |-> direction,
                                startX |-> clientX, startY |-> clientY,
                                startLeft |-> rect.left, startTop |-> rect.top,
                                startWidth |-> rect.width, startHeight |-> rect.height,
                                minWidth |-> Get(f.panels, id).config.minWidth,
                                minHeight |-> Get(f.panels, id).config.minHeight],
               !.elements = AddClass(f.elements, panel, "resizing")]

\* showSnapGuide(type, position)
showSnapGuide(g, type, position) ==
    IF type = "vertical"
    THEN [g EXCEPT !.vVisible = TRUE, !.vLeft = position]
    ELSE [g EXCEPT !.hVisible = TRUE, !.hTop = position]

\* hideSnapGuides()
hideSnapGuides(g) == [g EXCEPT !.vVisible = FALSE, !.hVisible = FALSE]

\* handleDrag that leaves a guide as it is when its axis did not snap
handleDrag_keepsGuides(s, clientX, clientY) ==
    LET d == s.dragState
        dx == clientX - d.startX
        dy == clientY - d.startY
        snap == calculateSnap(s, d.id, d.startLeft + dx, d.startTop + dy,
                              d.width, d.height)
        gv == IF snap.snappedV THEN showSnapGuide(s.guides, "vertical", snap.snapPosV)
              ELSE s.guides
        gh == IF snap.snappedH THEN showSnapGuide(gv, "horizontal", snap.snapPosH)
              ELSE gv
    IN [s EXCEPT !.guides = gh,
                 !.elements = [@ EXCEPT ![d.panel].left = snap.snapX,
                                        ![d.panel].top = snap.snapY]]

\* handleDrag that adds the pointer delta to the panel's current position
handleDrag_fromCurrent(s, clientX, clientY) ==
    LET d == s.dragState
        dx == clientX - d.startX
        dy == clientY - d.startY
        snap == calculateSnap(s, d.id, s.elements[d.panel].left + dx,
                              s.elements[d.panel].top + dy, d.width, d.height)
        gv == IF snap.snappedV THEN showSnapGuide(s.guides, "vertical", snap.snapPosV)
              ELSE [s.guides EXCEPT !.vVisible = FALSE]
        gh == IF snap.snappedH THEN showSnapGuide(gv, "horizontal", snap.snapPosH)
              ELSE [gv EXCEPT !.hVisible = FALSE]
    IN [s EXCEPT !.guides = gh,
                 !.elements = [@ EXCEPT ![d.panel].left = snap.snapX,
                                        ![d.panel].top = snap.snapY]]

\* handleDrag(e), e at (clientX, clientY)
handleDrag(s, clientX, clientY) ==
    LET d == s.dragState
        dx == clientX - d.startX
        dy == clientY - d.startY
        snap == calculateSnap(s, d.id, d.startLeft + dx, d.startTop + dy,
                              d.width, d.height)
        gv == IF snap.snappedV THEN showSnapGuide(s.guides, "vertical", snap.snapPosV)
              ELSE [s.guides EXCEPT !.vVisible = FALSE]
        gh == IF snap.snappedH THEN showSnapGuide(gv, "horizontal", snap.snapPosH)
              ELSE [gv EXCEPT !.hVisible = FALSE]
    IN [s EXCEPT !.guides = gh,
                 !.elements = [@ EXCEPT ![d.panel].left = snap.snapX,
                                        ![d.panel].top = snap.snapY]]

\* handleResize that passes the new position through calculateSnap
handleResize_snaps(s, clientX, clientY) ==
    LET r == s.resizeState
        dx == clientX - r.startX
        dy == clientY - r.startY
        widthE == IF Includes(r.direction, "e")
                  THEN Max(r.minWidth, r.startWidth + dx) ELSE r.startWidth
        newWidth == IF Includes(r.direction, "w")
                    THEN Max(r.minWidth, r.startWidth - dx) ELSE widthE
        newLeft == IF Includes(r.direction, "w") /\ newWidth > r.minWidth
                   THEN r.startLeft + dx ELSE r.startLeft
        heightS == IF Includes(r.direction, "s")
                   THEN Max(r.minHeight, r.startHeight + dy) ELSE r.startHeight
        newHeight == IF Includes(r.direction, "n")
                     THEN Max(r.minHeight, r.startHeight - dy) ELSE heightS
        newTop == IF Includes(r.direction, "n") /\ newHeight > r.minHeight
                  THEN r.startTop + dy ELSE r.startTop
        snap == calculateSnap(s, r.id, newLeft, newTop, newWidth, newHeight)
    IN [s EXCEPT
          !.elements = [@ EXCEPT ![r.panel].left = snap.snapX, ![r.panel].top = snap.snapY,
                                 ![r.panel].width = newWidth,
                                 ![r.panel].height = newHeight],
          !.emitted = Append(@, [panel |-> r.panel,
                                 detail |-> [width |-> newWidth, height |-> newHeight]])]

\* handleResize(e), e at (clientX, clientY)
handleResize(s, clientX, clientY) ==
    LET r == s.resizeState
        dx == clientX - r.startX
        dy == clientY - r.startY
        widthE == IF Includes(r.direction, "e")
                  THEN Max(r.minWidth, r.startWidth + dx) ELSE r.startWidth
        newWidth == IF Includes(r.direction, "w")
                    THEN Max(r.minWidth, r.startWidth - dx) ELSE widthE
        newLeft == IF Includes(r.direction, "w") /\ newWidth > r.minWidth
                   THEN r.startLeft + dx ELSE r.startLeft
        heightS == IF Includes(r.direction, "s")
                   THEN Max(r.minHeight, r.startHeight + dy) ELSE r.startHeight
        newHeight == IF Includes(r.direction, "n")
                     THEN Max(r.minHeight, r.startHeight - dy) ELSE heightS
        newTop == IF Includes(r.direction, "n") /\ newHeight > r.minHeight
                  THEN r.startTop + dy ELSE r.startTop
    IN [s EXCEPT
          !.elements = [@ EXCEPT ![r.panel].left = newLeft, ![r.panel].top = newTop,
                                 ![r.panel].width = newWidth,
                                 ![r.panel].height = newHeight],
          !.emitted = Append(@, [panel |-> r.panel,
                                 detail |-> [width |-> newWidth, height |-> newHeight]])]

\* handleMouseMove(e)
handleMouseMove(s, clientX, clientY) ==
    IF s.dragState # Null THEN handleDrag(s, clientX, clientY)
    ELSE IF s.resizeState # Null THEN handleResize(s, clientX, clientY)
    ELSE s

\* handleMouseUp that forgets to reset resizeState
handleMouseUp_keepsResize(s) ==
    LET a == IF s.dragState # Null
             THEN savePanelStates(
                    [s EXCEPT !.elements = RemoveClass(@, s.dragState.panel, "dragging"),
                              !.guides = hideSnapGuides(@)])
             ELSE s
        b == IF a.resizeState # Null
             THEN savePanelStates(
                    [a EXCEPT !.elements = RemoveClass(@, a.resizeState.panel, "resizing")])
             ELSE a
    IN [b EXCEPT !.dragState = Null]

\* handleMouseUp()
handleMouseUp(s) ==
    LET a == IF s.dragState # Null
             THEN savePanelStates(
                    [s EXCEPT !.elements = RemoveClass(@, s.dragState.panel, "dragging"),
                              !.guides = hideSnapGuides(@)])
             ELSE s
        b == IF a.resizeState # Null
             THEN savePanelStates(
                    [a EXCEPT !.elements = RemoveClass(@, a.resizeState.panel, "resizing")])
             ELSE a
    IN [b EXCEPT !.dragState = Null, !.resizeState = Null]

\* replace the state object of the registry entry of id
SetState(ps, id, st) ==
    [i \in 1..Len(ps) |-> IF ps[i].id = id THEN [ps[i] EXCEPT !.state = st] ELSE ps[i]]

\* minimizePanel that also takes the focus from the panel
minimizePanel_dropsFocus(s, id) ==
    IF ~Has(s.panels, id) THEN s
    ELSE LET data == Get(s.panels, id)
         IN [s EXCEPT !.elements = [@ EXCEPT ![data.element].classes =
                                                (@ \cup {"hidden"}) \ {"focused"}],
                      !.panels = SetState(@, id, [data.state EXCEPT !.minimized = TRUE])]

\* minimizePanel that stores the layout
minimizePanel_saves(s, id) ==
    IF ~Has(s.panels, id) THEN s
    ELSE LET data == Get(s.panels, id)
         IN savePanelStates(
              [s EXCEPT !.elements = AddClass(@, data.element, "hidden"),
                        !.panels = SetState(@, id, [data.state EXCEPT !.minimized = TRUE])])

\* minimizePanel(id)
minimizePanel(s, id) ==
    IF ~Has(s.panels, id) THEN s
    ELSE LET data == Get(s.panels, id)
         IN [s EXCEPT !.elements = AddClass(@, data.element, "hidden"),
                      !.panels = SetState(@, id, [data.state EXCEPT !.minimized = TRUE])]

\* toggleMaximize that saves the height as the width to restore
toggleMaximize_savesHeightAsWidth(s, id) ==
    IF ~Has(s.panels, id) THEN s
    ELSE LET data == Get(s.panels, id)
             panel == data.element
             style == s.elements[panel]
             t == IF data.state.maximized
                  THEN LET prev == data.state.prevBounds
                       IN [s EXCEPT
                             !.elements = [@ EXCEPT
                                 ![panel].left = prev.left, ![panel].top = prev.top,
                                 ![panel].width = prev.width, ![panel].height = prev.height,
                                 ![panel].classes = @ \ {"maximized"}],
                             !.panels = SetState(@, id,
                                 [data.state EXCEPT !.maximized = FALSE])]
                  ELSE [s EXCEPT
                          !.panels = SetState(@, id,
                              [data.state EXCEPT
                                 !.prevBounds = [left |-> style.left, top |-> style.top,
                                                 width |-> style.height,
                                                 height |-> style.height],
                                 !.maximized = TRUE]),
                          !.elements = AddClass(@, panel, "maximized")]
         IN [t EXCEPT !.emitted = Append(@, [panel |-> panel, detail |-> Null])]

\* toggleMaximize that restores the size and leaves the position as it is
toggleMaximize_restoresSizeOnly(s, id) ==
    IF ~Has(s.panels, id) THEN s
    ELSE LET data == Get(s.panels, id)
             panel == data.element
             style == s.elements[panel]
             t == IF data.state.maximized
                  THEN LET prev == data.state.prevBounds
                       IN [s EXCEPT
                             !.elements = [@ EXCEPT
                                 ![panel].width = prev.width, ![panel].height = prev.height,
                                 ![panel].classes = @ \ {"maximized"}],
                             !.panels = SetState(@, id,
                                 [data.state EXCEPT !.maximized = FALSE])]
                  ELSE [s EXCEPT
                          !.panels = SetState(@, id,
                              [data.state EXCEPT
                                 !.prevBounds = [left |-> style.left, top |-> style.top,
                                                 width |-> style.width,
                                                 height |-> style.height],
                                 !.maximized = TRUE]),
                          !.elements = AddClass(@, panel, "maximized")]
         IN [t EXCEPT !.emitted = Append(@, [panel |-> panel, detail |-> Null])]

\* toggleMaximize(id)
toggleMaximize(s, id) ==
    IF ~Has(s.panels, id) THEN s
    ELSE LET data == Get(s.panels, id)
             panel == data.element
             style == s.elements[panel]
             t == IF data.state.maximized
                  THEN LET prev == data.state.prevBounds
                       IN [s EXCEPT
                             !.elements = [@ EXCEPT
                                 ![panel].left = prev.left, ![panel].top = prev.top,
                                 ![panel].width = prev.width, ![panel].height = prev.height,
                                 ![panel].classes = @ \ {"maximized"}],
                             !.panels = SetState(@, id,
                                 [data.state EXCEPT !.maximized = FALSE])]
                  ELSE [s EXCEPT
                          !.panels = SetState(@, id,
                              [data.state EXCEPT
                                 !.prevBounds = [left |-> style.left, top |-> style.top,
                                                 width |-> style.width,
                                                 height |-> style.height],
                                 !.maximized = TRUE]),
                          !.elements = AddClass(@, panel, "maximized")]
         IN [t EXCEPT !.emitted = Append(@, [panel |-> panel, detail |-> Null])]

\* closePanel that saves before it removes the panel
closePanel_savesFirst(s, id) ==
    IF ~Has(s.panels, id) THEN s
    ELSE LET data == Get(s.panels, id)
             t == savePanelStates(s)
         IN [t EXCEPT !.elements = [@ EXCEPT ![data.element].inDOM = FALSE],
                      !.panels = MapDelete(@, id)]

\* closePanel(id)
closePanel(s, id) ==
    IF ~Has(s.panels, id) THEN s
    ELSE LET data == Get(s.panels, id)
         IN savePanelStates(
              [s EXCEPT !.elements = [@ EXCEPT ![data.element].inDOM = FALSE],
                        !.panels = MapDelete(@, id)])

\* showPanel that focuses before it looks the panel up
showPanel_focusesFirst(s, id) ==
    LET f == focusPanel(s, id)
    IN IF ~Has(f.panels, id) THEN f
       ELSE LET data == Get(f.panels, id)
            IN [f EXCEPT !.elements = RemoveClass(@, data.element, "hidden"),
                         !.panels = SetState(@, id, [data.state EXCEPT !.minimized = FALSE])]

\* showPanel that does not focus the panel
showPanel_withoutFocus(s, id) ==
    IF ~Has(s.panels, id) THEN s
    ELSE LET data == Get(s.panels, id)
         IN [s EXCEPT !.elements = RemoveClass(@, data.element, "hidden"),
                      !.panels = SetState(@, id, [data.state EXCEPT !.minimized = FALSE])]

\* showPanel(id)
showPanel(s, id) ==
    IF ~Has(s.panels, id) THEN s
    ELSE LET data == Get(s.panels, id)
         IN focusPanel(
              [s EXCEPT !.elements = RemoveClass(@, data.element, "hidden"),
                        !.panels = SetState(@, id, [data.state EXCEPT !.minimized = FALSE])],
              id)

---------------------------------------------------------------------------
(* Inputs *)

\* config objects the host passes to createPanel: one that leaves every
\* option to its default, and one at a fractional pixel position, narrower
\* than its minimum width and without resize handles
Configs ==
    { [id |-> "a"],
      [id |-> "b", x |-> Px(290) + 1, y |-> 0, width |-> Px(100), height |-> Px(200),
       minWidth |-> Px(200), resizable |-> FALSE, closable |-> FALSE] }

\* pointer position (clientX, clientY) of mousedown events
PressPoints == { <<Px(500), Px(400)>> }

\* pointer positions (clientX, clientY) of mousemove events
MovePoints == { <<Px(410), Px(390)>>, <<Px(650), Px(700)>> }

\* resize handles pressed
PressHandles == {"nw", "se"}

\* ids the host calls the public operations with
CallIds == PanelIds \cup {UnknownId}

---------------------------------------------------------------------------
(* Specification *)

\* new PanelManager() on a page whose localStorage item is `item`
Construct(item) ==
    /\ storage = item
    /\ savedStates = loadPanelStates(item)
    /\ panels = << >>
    /\ elements = << >>
    /\ activePanel = NoId
    /\ dragState = Null
    /\ resizeState = Null
    /\ topZIndex = baseZIndex
    /\ guides = [vVisible |-> FALSE, vLeft |-> 0, hVisible |-> FALSE, hTop |-> 0]
    /\ emitted = << >>
    /\ events = 0

\* first load of the page: nothing stored yet
Init == Construct([kind |-> "missing"])

\* the state a handler starts from: no event dispatched yet
Begin == [S EXCEPT !.emitted = << >>]

\* an element that is detached from the document and that no session refers
\* to can no longer be reached by the program
Garbage(t, el) ==
    /\ ~t.elements[el].inDOM
    /\ t.dragState = Null \/ t.dragState.panel # el
    /\ t.resizeState = Null \/ t.resizeState.panel # el

Collected(t) ==
    [el \in DOMAIN t.elements |->
       IF Garbage(t, el)
       THEN [id |-> t.elements[el].id, left |-> 0, top |-> 0, width |-> 0, height |-> 0,
             zIndex |-> NoZ, classes |-> {}, inDOM |-> FALSE,
             resizable |-> FALSE, closable |-> FALSE]
       ELSE t.elements[el]]

\* the program state becomes t
Becomes(t) ==
    /\ events < MaxEvents
    /\ panels' = t.panels
    /\ elements' = Collected(t)
    /\ activePanel' = t.activePanel
    /\ dragState' = t.dragState
    /\ resizeState' = t.resizeState
    /\ topZIndex' = t.topZIndex
    /\ guides' = t.guides
    /\ storage' = t.storage
    /\ savedStates' = t.savedStates
    /\ emitted' = t.emitted
    /\ events' = events + 1

\* an element that pointer events can hit
Hittable(el) ==
    /\ el \in DOMAIN elements
    /\ elements[el].inDOM
    /\ "hidden" \notin elements[el].classes

CreatePanel(config) ==
    /\ Becomes(createPanel(Begin, config))

ClosePanel(id) ==
    /\ Becomes(closePanel(Begin, id))

ShowPanel(id) ==
    /\ Becomes(showPanel(Begin, id))

MinimizePanel(id) ==
    /\ Becomes(minimizePanel(Begin, id))

ToggleMaximize(id) ==
    /\ Becomes(toggleMaximize(Begin, id))

FocusPanel(id) ==
    /\ Becomes(focusPanel(Begin, id))

\* the handlers a mousedown on the header of element el runs, outside its
\* buttons: the header's listener runs startDrag, then the event bubbles to
\* the panel's listener, which runs focusPanel
mouseDownHeader(s, el, pt) ==
    focusPanel(startDrag(s, pt[1], pt[2], el, s.elements[el].id), s.elements[el].id)

MouseDownHeader(el, pt) ==
    /\ Hittable(el)
    /\ Becomes(mouseDownHeader(Begin, el, pt))

\* the handler a mousedown on a resize handle of element el runs:
\* startResize stops the propagation, so the panel's listener does not run
mouseDownHandle(s, el, direction, pt) ==
    startResize(s, pt[1], pt[2], el, s.elements[el].id, direction)

MouseDownHandle(el, direction, pt) ==
    /\ Hittable(el)
    /\ elements[el].resizable
    /\ Becomes(mouseDownHandle(Begin, el, direction, pt))

MouseMove(pt) ==
    /\ Becomes(handleMouseMove(Begin, pt[1], pt[2]))

MouseUp ==
    /\ Becomes(handleMouseUp(Begin))

Next ==
    \/ \E config \in Configs : CreatePanel(config)
    \/ \E id \in CallIds : ClosePanel(id)
    \/ \E id \in CallIds : ShowPanel(id)
    \/ \E id \in CallIds : MinimizePanel(id)
    \/ \E id \in CallIds : ToggleMaximize(id)
    \/ \E id \in CallIds : FocusPanel(id)
    \/ \E el \in DOMAIN elements, pt \in PressPoints : MouseDownHeader(el, pt)
    \/ \E el \in DOMAIN elements, direction \in PressHandles, pt \in PressPoints :
          MouseDownHandle(el, direction, pt)
    \/ \E pt \in MovePoints : MouseMove(pt)
    \/ MouseUp

Spec == Init /\ [][Next]_vars

---------------------------------------------------------------------------
(* A page that is loaded again, and a host that places its panel from the
   saved layout *)

\* a layout document an earlier page load left in storage
StoredLayout ==
    [id \in {"a"} |->
       [x |-> Px(40), y |-> Px(60), width |-> Px(320), height |-> Px(240),
        minimized |-> FALSE, maximized |-> FALSE]]

\* a layout document saved while the panel was maximized and minimized (the
\* box of a hidden element is empty)
StoredHiddenLayout ==
    [id \in {"a"} |->
       [x |-> Px(40), y |-> Px(60), width |-> 0, height |-> 0,
        minimized |-> TRUE, maximized |-> TRUE]]

\* what localStorage.getItem('orbrya_panels') can answer when the page loads:
\* nothing, a text that is not JSON, a layout document
InitialItems ==
    { [kind |-> "missing"], [kind |-> "malformed"], JSONStringify(StoredLayout),
      JSONStringify(StoredHiddenLayout) }

\* new PanelManager() on a page whose storage holds item
newPanelManager(item) ==
    [panels |-> << >>, elements |-> << >>, activePanel |-> NoId,
     dragState |-> Null, resizeState |-> Null, topZIndex |-> baseZIndex,
     guides |-> [vVisible |-> FALSE, vLeft |-> 0, hVisible |-> FALSE, hTop |-> 0],
     storage |-> item, savedStates |-> loadPanelStates(item), emitted |-> << >>]

\* CodeEditor: the id of its panel, and the geometry it asks for when
\* nothing is saved
EditorPanelId == "a"
EditorRightOffset == 500
EditorDefaultY == 50
EditorDefaultWidth == 480
EditorDefaultHeight == 520
EditorMinWidth == 380
EditorMinHeight == 300

\* window.innerWidth: the workspace spans the window
innerWidth == WorkspaceWidth

\* saved?.field ?? default
SavedOr(saved, field, default) ==
    IF saved # Null THEN saved[field] ELSE default

\* CodeEditor.createPanel()
codeEditorCreatePanel(s) ==
    LET saved == getSavedState(s.savedStates, EditorPanelId)
    IN createPanel(s,
         [id |-> EditorPanelId,
          x |-> SavedOr(saved, "x", innerWidth - Px(EditorRightOffset)),
          y |-> SavedOr(saved, "y", Px(EditorDefaultY)),
          width |-> SavedOr(saved, "width", Px(EditorDefaultWidth)),
          height |-> SavedOr(saved, "height", Px(EditorDefaultHeight)),
          minWidth |-> Px(EditorMinWidth), minHeight |-> Px(EditorMinHeight)])

CodeEditorCreatePanel ==
    /\ Becomes(codeEditorCreatePanel(Begin))

\* the page is loaded again: a fresh engine over the storage as it is
Reload ==
    /\ Becomes(newPanelManager(storage))

InitLoad == \E item \in InitialItems : Construct(item)

\* the operations that create panels, change what is saved, save, or load
NextLoad ==
    \/ \E config \in Configs : CreatePanel(config)
    \/ CodeEditorCreatePanel
    \/ \E id \in PanelIds : ClosePanel(id)
    \/ \E id \in PanelIds : MinimizePanel(id)
    \/ \E id \in PanelIds : ToggleMaximize(id)
    \/ \E el \in DOMAIN elements, pt \in PressPoints : MouseDownHeader(el, pt)
    \/ \E pt \in MovePoints : MouseMove(pt)
    \/ MouseUp
    \/ Reload

LoadSpec == InitLoad /\ [][NextLoad]_vars

---------------------------------------------------------------------------
(* Resizing with every handle *)

\* how far the pointer can be from where it was pressed, in px: the largest
\* coordinate a mousemove is given
FarPx == 100000

\* where the pointer moves to during a resize, the press being at
\* (500, 400): 50 px up and left; 100 px right and 250 px down, which takes a
\* panel of the default size exactly to the default minimum size with the
\* handles w and n; 150 px right and 300 px down, beyond the minimum; and far
\* outside the workspace on either side
ResizeMovePoints ==
    { <<Px(450), Px(350)>>, <<Px(600), Px(650)>>, <<Px(650), Px(700)>>,
      <<Px(0 - FarPx), Px(0 - FarPx)>>, <<Px(FarPx), Px(FarPx)>> }

\* a panel with every option at its default
ResizeConfigs == { [id |-> "a"] }

\* a panel whose config asks for a width below its minimum width
NarrowConfigs == { [id |-> "b", width |-> Px(100), minWidth |-> Px(200)] }

NextResize ==
    \/ \E config \in ResizeConfigs : CreatePanel(config)
    \/ \E el \in DOMAIN elements, direction \in Directions, pt \in PressPoints :
          MouseDownHandle(el, direction, pt)
    \/ \E pt \in ResizeMovePoints : MouseMove(pt)
    \/ MouseUp

ResizeSpec == Init /\ [][NextResize]_vars

NextNarrowResize ==
    \/ \E config \in NarrowConfigs : CreatePanel(config)
    \/ \E el \in DOMAIN elements, direction \in Directions, pt \in PressPoints :
          MouseDownHandle(el, direction, pt)
    \/ \E pt \in ResizeMovePoints : MouseMove(pt)
    \/ MouseUp

NarrowResizeSpec == Init /\ [][NextNarrowResize]_vars

---------------------------------------------------------------------------
(* Dragging among panels that snap *)

\* three panels of 300 x 200: a in the top left corner of the workspace, b
\* overlapping a's right edge by 10 px, c lower, its left edge 10 px right of
\* a's right edge
SnapConfigs ==
    { [id |-> "a", x |-> 0, y |-> 0, width |-> Px(300), height |-> Px(200)],
      [id |-> "b", x |-> Px(290), y |-> 0, width |-> Px(300), height |-> Px(200)],
      [id |-> "c", x |-> Px(310), y |-> Px(300), width |-> Px(300), height |-> Px(200)] }

SnapIds == {config.id : config \in SnapConfigs}

\* where the pointer moves to during a drag, the press being at (500, 400):
\* 12 px right; 12 px left and up; 15 px right and down, and half a pixel
\* less; 100 px right and down; and so far right and down that a panel of
\* 300 x 200 from the top left corner ends 10 px, or 15 px, short of the
\* workspace's right and bottom edge
SnapMovePoints ==
    { <<Px(512), Px(400)>>, <<Px(488), Px(388)>>,
      <<Px(515), Px(415)>>, <<Px(515) - 1, Px(415) - 1>>,
      <<Px(600), Px(500)>>,
      <<Px(500) + WorkspaceWidth - Px(310), Px(400) + WorkspaceHeight - Px(210)>>,
      <<Px(500) + WorkspaceWidth - Px(315), Px(400) + WorkspaceHeight - Px(215)>> }

NextSnap ==
    \/ \E config \in SnapConfigs : CreatePanel(config)
    \/ \E id \in SnapIds : MinimizePanel(id)
    \/ \E id \in SnapIds : ShowPanel(id)
    \/ \E id \in SnapIds : ToggleMaximize(id)
    \/ \E el \in DOMAIN elements, pt \in PressPoints : MouseDownHeader(el, pt)
    \/ \E pt \in SnapMovePoints : MouseMove(pt)
    \/ MouseUp

SnapSpec == Init /\ [][NextSnap]_vars

---------------------------------------------------------------------------
(* Vocabulary of the properties *)

\* the element of the registered panel id
ElementOf(id) == elements[Get(panels, id).element]

\* the registered panels whose element carries the class 'focused'
FocusedIds == {id \in Ids(panels) : "focused" \in ElementOf(id).classes}

\* a drag session / a resize session is active
Dragging == dragState # Null
Resizing == resizeState # Null
Idle == ~Dragging /\ ~Resizing

\* a mousedown is delivered in this step
PointerDown ==
    \E el \in DOMAIN elements, pt \in PressPoints :
       \/ MouseDownHeader(el, pt)
       \/ \E direction \in PressHandles : MouseDownHandle(el, direction, pt)

\* this step is a focus acquisition on the registered panel id
FocusAcquired(id) ==
    /\ Has(panels, id)
    /\ \/ FocusPanel(id)
       \/ ShowPanel(id)
       \/ \E el \in DOMAIN elements, pt \in PressPoints :
             /\ elements[el].id = id
             /\ \/ MouseDownHeader(el, pt)
                \/ \E direction \in PressHandles : MouseDownHandle(el, direction, pt)

---------------------------------------------------------------------------
(* Properties *)

\* C1: at most one panel of the registry is focused, in every reachable state.
AtMostOneFocused == Cardinality(FocusedIds) <= 1

\* two registered panels have both acquired focus, and one of them holds it
C1_Witness ==
    /\ Cardinality(Ids(panels)) = 2
    /\ \A id \in Ids(panels) : ElementOf(id).zIndex # NoZ
    /\ Cardinality(FocusedIds) = 1

ZIndexStrictlyIncreases ==
    [][ /\ topZIndex' >= topZIndex
        /\ \A el \in DOMAIN elements : elements[el].zIndex <= topZIndex
        /\ \A id \in PanelIds :
              FocusAcquired(id) =>
                 LET target == Get(panels', id).element
                 IN /\ elements'[target].zIndex = topZIndex'
                    /\ elements'[target].zIndex > topZIndex
                    /\ \A el \in DOMAIN elements' :
                          el # target => elements'[el].zIndex < elements'[target].zIndex
      ]_vars

\* both panels have acquired focus, the second after the first
C3_Witness ==
    /\ Ids(panels) = {"a", "b"}
    /\ ElementOf("a").zIndex # NoZ
    /\ ElementOf("b").zIndex > ElementOf("a").zIndex
    /\ ElementOf("b").zIndex = topZIndex

\* C4 as stated: every registered panel is at least as wide and as high as
\* its configured minimum.
MinimumSizeRespected ==
    \A id \in Ids(panels) :
       /\ ElementOf(id).width >= Get(panels, id).config.minWidth
       /\ ElementOf(id).height >= Get(panels, id).config.minHeight

\* C5 as stated: a panel is maximized exactly when it has saved bounds.
MaximizedIffPrevBounds ==
    \A id \in Ids(panels) :
       Get(panels, id).state.maximized <=> Get(panels, id).state.prevBounds # Null

\* the geometry of an element
Geometry(e) == <<e.left, e.top, e.width, e.height>>

\* C6: toggleMaximize called on a registered panel that is not maximized,
\* and called again on the state that call leaves, ends with the panel not
\* maximized and with the geometry it had before the first call.
ToggleTwiceRestores ==
    [][ \A id \in PanelIds :
           (Has(panels, id) /\ ~Get(panels, id).state.maximized /\ ToggleMaximize(id)) =>
              LET second == toggleMaximize(S', id)
                  after == second.elements[Get(second.panels, id).element]
              IN /\ Get(panels', id).state.maximized
                 /\ ~Get(second.panels, id).state.maximized
                 /\ "maximized" \notin after.classes
                 /\ Geometry(after) = Geometry(ElementOf(id))
      ]_vars

\* a panel that was moved or resized has been maximized and restored: it is
\* not maximized and has the geometry saved at the maximize
C6_Witness ==
    \E id \in Ids(panels) :
       /\ ~Get(panels, id).state.maximized
       /\ Get(panels, id).state.prevBounds # Null
       /\ "maximized" \notin ElementOf(id).classes
       /\ ElementOf(id).left # Px(DefaultX)
       /\ Geometry(ElementOf(id)) =
             LET prev == Get(panels, id).state.prevBounds
             IN <<prev.left, prev.top, prev.width, prev.height>>

\* C7 as stated: the drag session and the resize session are never both
\* active.
NeverDraggingAndResizing == ~(Dragging /\ Resizing)

\* C8 as stated: a mousedown delivered while a session is active leaves both
\* sessions as they are.
PointerDownIgnoredInSession ==
    [][ (~Idle /\ PointerDown) =>
           (dragState' = dragState /\ resizeState' = resizeState) ]_vars

\* C9: a drag session and a resize session end only in a step that is a
\* mouseup, and every mouseup leaves the controller idle.
OnlyPointerUpEndsSession ==
    [][ /\ (Dragging /\ ~Dragging') => MouseUp
        /\ (Resizing /\ ~Resizing') => MouseUp
        /\ MouseUp => Idle'
      ]_vars

\* a session that moved panel a has ended
C9_Witness ==
    /\ Idle
    /\ Has(panels, "a")
    /\ ElementOf("a").zIndex # NoZ
    /\ Geometry(ElementOf("a")) #
          <<Px(DefaultX), Px(DefaultY), Px(DefaultWidth), Px(DefaultHeight)>>
    /\ Get(panels, "a").state.prevBounds = Null

\* the layout document that holds, for every registered panel, its current
\* position, size and flags
CurrentLayout ==
    [id \in Ids(panels) |->
       [x |-> ElementOf(id).left, y |-> ElementOf(id).top,
        width |-> ElementOf(id).width, height |-> ElementOf(id).height,
        minimized |-> Get(panels, id).state.minimized,
        maximized |-> Get(panels, id).state.maximized]]

\* C10 as stated: a mouseup that ends a session stores the current layout of
\* the registered panels, and after a drag end no snap guide is visible.
PointerUpPersistsLayout ==
    [][ (MouseUp /\ ~Idle) =>
           /\ storage' = JSONStringify(CurrentLayout')
           /\ Dragging => (~guides'.vVisible /\ ~guides'.hVisible)
      ]_vars


\* this step runs savePanelStates: a mouseup that ends a session, or the
\* closing of a registered panel
Saves ==
    \/ MouseUp /\ ~Idle
    \/ \E id \in PanelIds : ClosePanel(id) /\ Has(panels, id)

\* C11 as stated: after a save, a fresh engine instance over the stored
\* document reports, for every panel registered at the save, exactly the x,
\* y, width, height, minimized and maximized the panel had at the save.
SaveLoadRoundTrip ==
    [][ Saves =>
           LET fresh == newPanelManager(storage')
           IN \A id \in Ids(panels') :
                 getSavedState(fresh.savedStates, id) = CurrentLayout'[id]
      ]_vars

\* C12 as stated: createPanel places a panel, for each of x, y, width and
\* height, at the value its config gives, else at the persisted value for its
\* id, else at the hard default.
CreateUsesPersistedGeometry ==
    [][ \A config \in Configs :
           CreatePanel(config) =>
              LET el == Len(elements) + 1
                  saved == getSavedState(savedStates, config.id)
                  Expected(field, default) ==
                      IF field \in DOMAIN config THEN config[field]
                      ELSE IF saved # Null THEN saved[field]
                      ELSE Px(default)
              IN /\ elements'[el].left = Expected("x", DefaultX)
                 /\ elements'[el].top = Expected("y", DefaultY)
                 /\ elements'[el].width = Expected("width", DefaultWidth)
                 /\ elements'[el].height = Expected("height", DefaultHeight)
      ]_vars

\* C13: closing a registered panel removes its entry from the registry and
\* leaves a stored document whose entries are exactly the other registered
\* panels, whose registry entries are untouched; closing it again changes
\* nothing.
CloseRemovesAndIsIdempotent ==
    [][ \A id \in CallIds :
           (ClosePanel(id) /\ Has(panels, id)) =>
              /\ ~Has(panels', id)
              /\ \A other \in Ids(panels) \ {id} :
                    Has(panels', other) /\ Get(panels', other) = Get(panels, other)
              /\ storage'.kind = "json"
              /\ DOMAIN storage'.doc = Ids(panels) \ {id}
              /\ closePanel(S', id) = S'
      ]_vars

\* panel a was closed while panel b stayed registered
C13_Witness ==
    /\ \E el \in DOMAIN elements : elements[el].id = "a" /\ ~elements[el].inDOM
    /\ Ids(panels) = {"b"}
    /\ storage.kind = "json"
    /\ DOMAIN storage.doc = {"b"}

\* C14: closePanel, toggleMaximize, minimizePanel and showPanel called with
\* an id that is not in the registry change nothing: registry, elements
\* (geometry, classes, zIndex), focus, zIndex counter, sessions, guides,
\* stored document and loaded layout stay as they are, and no event is
\* dispatched.
UnknownIdChangesNothing ==
    [][ \A id \in CallIds :
           ( /\ ~Has(panels, id)
             /\ \/ ClosePanel(id)
                \/ ToggleMaximize(id)
                \/ MinimizePanel(id)
                \/ ShowPanel(id) ) =>
              /\ UNCHANGED << panels, elements, activePanel, dragState, resizeState,
                              topZIndex, guides, storage, savedStates >>
              /\ emitted' = << >>
      ]_vars

\* a run of one createPanel, one focus acquisition and one event that left
\* the program state as it was, with ids left that are not in the registry
C14_Witness ==
    /\ events = 3
    /\ Len(elements) = 1
    /\ Ids(panels) = {"a"}
    /\ FocusedIds = {"a"}
    /\ topZIndex = baseZIndex + 1
    /\ ~Get(panels, "a").state.minimized
    /\ ~Get(panels, "a").state.maximized
    /\ Idle
    /\ storage.kind = "missing"

\* C15 as stated: focusPanel called with an id that is not in the registry
\* changes nothing: the focused panel stays focused, no zIndex and not the
\* top counter changes.
FocusUnknownChangesNothing ==
    [][ \A id \in CallIds :
           (~Has(panels, id) /\ FocusPanel(id)) =>
              UNCHANGED << panels, elements, activePanel, topZIndex >>
      ]_vars

\* C16 as stated: createPanel with an id that is already in the registry is
\* rejected: the registry and the existing panel stay as they were, and no
\* element is added.
DuplicateIdRejected ==
    [][ \A config \in Configs :
           (CreatePanel(config) /\ Has(panels, config.id)) =>
              UNCHANGED << panels, elements >>
      ]_vars

\* a mousemove is handled by handleResize in this step
ResizeMove ==
    /\ Resizing
    /\ ~Dragging
    /\ \E pt \in ResizeMovePoints \cup MovePoints : MouseMove(pt)

\* C17 as stated: with any handle and any pointer delta, a resize-move leaves
\* the panel at least as wide as the session's minWidth and at least as high
\* as the session's minHeight.
ResizeKeepsMinimum ==
    [][ ResizeMove =>
           /\ elements'[resizeState.panel].width >= resizeState.minWidth
           /\ elements'[resizeState.panel].height >= resizeState.minHeight
      ]_vars

\* C18 as stated: with a handle containing w the right edge, and with a
\* handle containing n the bottom edge, is after every resize-move where it
\* was when the resize started.
AnchorEdgeFixed ==
    [][ ResizeMove =>
           LET r == resizeState
               e == elements'[r.panel]
           IN /\ Includes(r.direction, "w") =>
                    e.left + e.width = r.startLeft + r.startWidth
              /\ Includes(r.direction, "n") =>
                    e.top + e.height = r.startTop + r.startHeight
      ]_vars

\* the width and height of element el as its style gives them, and as it is
\* rendered
StyleSize(els, el) == [width |-> els[el].width, height |-> els[el].height]
RenderedSize(els, el) ==
    [width |-> BoundingRect(els, el).width, height |-> BoundingRect(els, el).height]

\* C19 as stated: a resize-move, a maximize and a restore each dispatch
\* exactly one resize event, on the affected panel, whose detail is that
\* panel's width and height.
ResizeNotificationCarriesSize ==
    [][ /\ ResizeMove =>
              emitted' = << [panel |-> resizeState.panel,
                             detail |-> StyleSize(elements', resizeState.panel)] >>
        /\ \A id \in CallIds :
              (ToggleMaximize(id) /\ Has(panels, id)) =>
                 LET panel == Get(panels, id).element
                 IN /\ Len(emitted') = 1
                    /\ emitted'[1].panel = panel
                    /\ emitted'[1].detail \in
                          {StyleSize(elements', panel), RenderedSize(elements', panel)}
      ]_vars

\* getSavedState answers undefined for every id
NoSavedState == \A id \in CallIds : getSavedState(savedStates, id) = Null

\* C20: when the stored item is missing or is not JSON, the engine is
\* constructed all the same (first load and reload), getSavedState reports
\* no saved state for any id, and a panel created while no saved state is
\* reported is placed by its config or else the hard defaults, the editor's
\* panel by the editor's defaults.
LoadNeverFails ==
    /\ storage.kind # "json" => NoSavedState
    /\ [][ (Reload /\ storage.kind # "json") =>
              /\ NoSavedState'
              /\ panels' = << >> /\ elements' = << >>
              /\ Idle' /\ topZIndex' = baseZIndex
         ]_vars
    /\ [][ NoSavedState =>
              LET el == Len(elements) + 1
              IN /\ CodeEditorCreatePanel =>
                       /\ elements'[el].left = innerWidth - Px(EditorRightOffset)
                       /\ elements'[el].top = Px(EditorDefaultY)
                       /\ elements'[el].width = Px(EditorDefaultWidth)
                       /\ elements'[el].height = Px(EditorDefaultHeight)
                 /\ \A config \in Configs :
                       CreatePanel(config) =>
                          /\ elements'[el].left = Opt(config, "x", Px(DefaultX))
                          /\ elements'[el].top = Opt(config, "y", Px(DefaultY))
                          /\ elements'[el].width = Opt(config, "width", Px(DefaultWidth))
                          /\ elements'[el].height = Opt(config, "height", Px(DefaultHeight))
         ]_vars

\* the page was loaded over a text that is not JSON, and the editor's panel
\* stands where the editor's defaults put it
C20_Witness ==
    /\ storage.kind = "malformed"
    /\ NoSavedState
    /\ Has(panels, EditorPanelId)
    /\ ElementOf(EditorPanelId).left = innerWidth - Px(EditorRightOffset)
    /\ ElementOf(EditorPanelId).width = Px(EditorDefaultWidth)

\* C21 as stated: any two distinct panels of the registry have integer
\* zIndex values, and different ones, whether or not they were ever focused.
UniqueZIndex ==
    \A id1, id2 \in Ids(panels) :
       id1 # id2 =>
          /\ ElementOf(id1).zIndex # NoZ
          /\ ElementOf(id2).zIndex # NoZ
          /\ ElementOf(id1).zIndex # ElementOf(id2).zIndex

\* C22: a drag-move puts the dragged panel where calculateSnap sends the
\* session's origin translated by the pointer's distance from the press
\* point; the panel's width and height, every other element, the registry
\* with its flags, the session and the stored document stay as they are.
DragMoveFromOrigin ==
    [][ \A pt \in MovePoints :
           (Dragging /\ MouseMove(pt)) =>
              LET d == dragState
                  snap == calculateSnap(S, d.id, d.startLeft + (pt[1] - d.startX),
                                        d.startTop + (pt[2] - d.startY),
                                        d.width, d.height)
              IN /\ elements'[d.panel] =
                       [elements[d.panel] EXCEPT !.left = snap.snapX, !.top = snap.snapY]
                 /\ \A el \in DOMAIN elements \ {d.panel} : elements'[el] = elements[el]
                 /\ UNCHANGED << panels, dragState, resizeState, activePanel,
                                 topZIndex, storage, savedStates >>
      ]_vars

\* panel a, pressed at (500, 400) where it was created, has been dragged to
\* (650, 700) while panel b is registered too
C22_Witness ==
    /\ Dragging
    /\ dragState.id = "a"
    /\ dragState.startLeft = Px(DefaultX)
    /\ elements[dragState.panel].left = Px(DefaultX) + Px(150)
    /\ elements[dragState.panel].width = Px(DefaultWidth)
    /\ Has(panels, "b")

---------------------------------------------------------------------------
(* Snapping: the rules, one by one *)

\* the boxes of the panels that calculateSnap(panelId, ...) compares with, in
\* registry order
Eligible(entry, panelId) ==
    /\ entry.id # panelId
    /\ "hidden" \notin elements[entry.element].classes
    /\ "maximized" \notin elements[entry.element].classes
Siblings(panelId) ==
    LET es == SelectSeq(panels, LAMBDA entry : Eligible(entry, panelId))
    IN [i \in 1..Len(es) |-> BoundingRect(elements, es[i].element)]

\* the rules of one axis in the order of evaluation, for a candidate edge
\* position lo and extent len in a workspace of extent size: each with
\* whether it matches, the position it snaps to and the position of its guide
AxisRules(sibs, lo, len, size, dim, start) ==
    [k \in 1..(2 + 4 * Len(sibs)) |->
       IF k = 1 THEN [m |-> Abs(lo) < snapThreshold, v |-> 0, pos |-> 0]
       ELSE IF k = 2
       THEN [m |-> Abs(lo + len - size) < snapThreshold, v |-> size - len, pos |-> size]
       ELSE LET rect == sibs[((k - 3) \div 4) + 1]
                near == rect[start]
                far == rect[start] + rect[dim]
                j == (k - 3) % 4
            IN IF j = 0 THEN [m |-> Abs(lo - far) < snapThreshold, v |-> far, pos |-> far]
               ELSE IF j = 1
               THEN [m |-> Abs(lo + len - near) < snapThreshold, v |-> near - len, pos |-> near]
               ELSE IF j = 2
               THEN [m |-> Abs(lo - near) < snapThreshold, v |-> near, pos |-> near]
               ELSE [m |-> Abs(lo + len - far) < snapThreshold, v |-> far - len, pos |-> far]]

\* the rules that match, and the last of them (0 when none does)
Matching(rules) == {k \in DOMAIN rules : rules[k].m}
Last(ks) == IF ks = {} THEN 0 ELSE CHOOSE k \in ks : \A j \in ks : j <= k

\* the pointer positions of the mousemove events
AllMovePoints == MovePoints \cup SnapMovePoints

\* the candidate position of the drag session when the pointer is at pt, and
\* the rules it meets
CandX(pt) == dragState.startLeft + (pt[1] - dragState.startX)
CandY(pt) == dragState.startTop + (pt[2] - dragState.startY)
XRules(pt) ==
    AxisRules(Siblings(dragState.id), CandX(pt), dragState.width, WorkspaceWidth,
              "width", "left")
YRules(pt) ==
    AxisRules(Siblings(dragState.id), CandY(pt), dragState.height, WorkspaceHeight,
              "height", "top")

\* a mousemove to pt is handled by handleDrag in this step
DragMove(pt) == Dragging /\ MouseMove(pt)

\* C23: on a drag-move, against the workspace and when no sibling rule of
\* the axis matches: a candidate less than the threshold from the left edge,
\* and not from the right, lands at x = 0; one less than the threshold from
\* the right edge lands at workspace width - width; one at the threshold or
\* farther from both keeps its x. The same holds for y with top and bottom,
\* and the x the panel lands at does not depend on the candidate's y, nor the
\* y on the candidate's x.
WorkspaceEdgeSnap ==
    [][ \A pt \in AllMovePoints :
           DragMove(pt) =>
              LET d == dragState
                  x == CandX(pt)
                  y == CandY(pt)
                  snapX == elements'[d.panel].left
                  snapY == elements'[d.panel].top
                  sibX == Matching(XRules(pt)) \ {1, 2} # {}
                  sibY == Matching(YRules(pt)) \ {1, 2} # {}
                  left == Abs(x) < snapThreshold
                  right == Abs(x + d.width - WorkspaceWidth) < snapThreshold
                  top == Abs(y) < snapThreshold
                  bottom == Abs(y + d.height - WorkspaceHeight) < snapThreshold
              IN /\ ~sibX =>
                       /\ (left /\ ~right) => snapX = 0
                       /\ right => snapX = WorkspaceWidth - d.width
                       /\ (~left /\ ~right) => snapX = x
                 /\ ~sibY =>
                       /\ (top /\ ~bottom) => snapY = 0
                       /\ bottom => snapY = WorkspaceHeight - d.height
                       /\ (~top /\ ~bottom) => snapY = y
                 /\ \A pt2 \in AllMovePoints :
                       /\ calculateSnap(S, d.id, x, CandY(pt2), d.width, d.height).snapX
                             = snapX
                       /\ calculateSnap(S, d.id, CandX(pt2), y, d.width, d.height).snapY
                             = snapY
      ]_vars

\* panel a, alone in the registry and 300 px wide, was dragged from the top
\* left corner to 10 px short of the workspace's right edge and stands at the
\* edge, both guides showing
C23_Witness ==
    /\ Dragging
    /\ Ids(panels) = {"a"}
    /\ dragState.id = "a"
    /\ dragState.startLeft = 0
    /\ guides.vVisible /\ guides.hVisible
    /\ elements[dragState.panel].left = WorkspaceWidth - Px(300)
    /\ elements[dragState.panel].top = WorkspaceHeight - Px(200)

\* C24 as stated: on a drag-move, every sibling rule that matches decides
\* the position on its axis: left edge near the sibling's right edge lands at
\* the sibling's right, right edge near its left at sibling left - width,
\* left near left at sibling left, right near right at sibling right -
\* width, and likewise for top and bottom.
SiblingRuleDecides ==
    [][ \A pt \in AllMovePoints :
           DragMove(pt) =>
              /\ \A k \in Matching(XRules(pt)) \ {1, 2} :
                    elements'[dragState.panel].left = XRules(pt)[k].v
              /\ \A k \in Matching(YRules(pt)) \ {1, 2} :
                    elements'[dragState.panel].top = YRules(pt)[k].v
      ]_vars

\* C24, amended: a sibling rule that matches decides the position on its
\* axis when no rule later in the order of evaluation matches on that axis.
LastSiblingRuleDecides ==
    [][ \A pt \in AllMovePoints :
           DragMove(pt) =>
              /\ Last(Matching(XRules(pt))) > 2 =>
                    elements'[dragState.panel].left
                       = XRules(pt)[Last(Matching(XRules(pt)))].v
              /\ Last(Matching(YRules(pt))) > 2 =>
                    elements'[dragState.panel].top
                       = YRules(pt)[Last(Matching(YRules(pt)))].v
      ]_vars

\* with a and b registered, b was dragged from x = 290 and stands at a's
\* right edge, x = 300, the vertical guide there
C24_Witness ==
    /\ Dragging
    /\ Ids(panels) = {"a", "b"}
    /\ dragState.id = "b"
    /\ dragState.startLeft = Px(290)
    /\ ElementOf("a").left = 0 /\ ElementOf("a").width = Px(300)
    /\ elements[dragState.panel].left = Px(300)
    /\ guides.vVisible /\ guides.vLeft = Px(300)

\* C25: on a drag-move, the position on each axis is the one the last
\* matching rule gives, the rules of the axis taken in the order workspace
\* near edge, workspace far edge, then per sibling in registry order near
\* edge to far edge of the sibling, far to near, near to near, far to far;
\* and it is the candidate's own coordinate when no rule matches.
LastMatchingRuleWins ==
    [][ \A pt \in AllMovePoints :
           DragMove(pt) =>
              LET xs == XRules(pt)
                  ys == YRules(pt)
                  lastX == Last(Matching(xs))
                  lastY == Last(Matching(ys))
              IN /\ elements'[dragState.panel].left
                       = IF lastX = 0 THEN CandX(pt) ELSE xs[lastX].v
                 /\ elements'[dragState.panel].top
                       = IF lastY = 0 THEN CandY(pt) ELSE ys[lastY].v
      ]_vars

\* with a registered before c, b was dragged from x = 290 to a candidate
\* less than 5 px right of a's right edge (x = 300) and more than 5 px left
\* of c's left edge (x = 310), and stands at c's left edge
C25_Witness ==
    /\ Dragging
    /\ dragState.id = "b"
    /\ dragState.startLeft = Px(290)
    /\ [i \in 1..Len(panels) |-> panels[i].id] = <<"a", "b", "c">>
    /\ ElementOf("a").left + ElementOf("a").width = Px(300)
    /\ ElementOf("c").left = Px(310)
    /\ elements[dragState.panel].left = Px(310)
    /\ elements[dragState.panel].top = 0

\* the program state with the style box of panel id's element set to rect,
\* and with panel id taken out of the registry
WithBox(id, rect) ==
    [S EXCEPT !.elements =
        [@ EXCEPT ![Get(panels, id).element].left = rect.left,
                  ![Get(panels, id).element].top = rect.top,
                  ![Get(panels, id).element].width = rect.width,
                  ![Get(panels, id).element].height = rect.height]]
Without(id) == [S EXCEPT !.panels = MapDelete(@, id)]

\* C26: on a drag-move, what calculateSnap returns stays the same when the
\* moving panel itself, a minimized panel or a maximized panel is given a box
\* the candidate would snap to (one unit right of and below the candidate),
\* and when a minimized or maximized panel is taken away altogether; and a
\* registered panel that is minimized stops being minimized only by
\* showPanel.
SnapIgnoresSelfHiddenMaximized ==
    /\ [][ \A pt \in AllMovePoints :
              DragMove(pt) =>
                 LET d == dragState
                     x == CandX(pt)
                     y == CandY(pt)
                     r == calculateSnap(S, d.id, x, y, d.width, d.height)
                     near == [left |-> x + 1, top |-> y + 1,
                              width |-> d.width, height |-> d.height]
                 IN \A id \in Ids(panels) :
                       LET state == Get(panels, id).state
                       IN /\ (id = d.id \/ state.minimized \/ state.maximized) =>
                                calculateSnap(WithBox(id, near), d.id, x, y,
                                              d.width, d.height) = r
                          /\ (id # d.id /\ (state.minimized \/ state.maximized)) =>
                                calculateSnap(Without(id), d.id, x, y,
                                              d.width, d.height) = r
         ]_vars
    /\ [][ \A id \in Ids(panels) :
              ( /\ Get(panels, id).state.minimized
                /\ Has(panels', id)
                /\ Get(panels', id).element = Get(panels, id).element
                /\ ~Get(panels', id).state.minimized ) => ShowPanel(id)
         ]_vars

\* with a minimized where it was created, b was dragged from x = 290 to 2 px
\* right of where a's right edge would be and stays there, no vertical guide
\* showing
C26_Witness ==
    /\ Dragging
    /\ dragState.id = "b"
    /\ dragState.startLeft = Px(290)
    /\ Has(panels, "a")
    /\ Get(panels, "a").state.minimized
    /\ ElementOf("a").left + ElementOf("a").width = Px(300)
    /\ elements[dragState.panel].left = Px(302)
    /\ ~guides.vVisible

\* the program state with nothing left in it but the registry, the boxes of
\* the elements and their classes 'hidden' and 'maximized'
Bare ==
    [S EXCEPT !.elements = [el \in DOMAIN elements |->
                              [elements[el] EXCEPT
                                 !.zIndex = NoZ,
                                 !.classes = @ \cap {"hidden", "maximized"}]],
              !.activePanel = NoId, !.dragState = Null, !.resizeState = Null,
              !.topZIndex = baseZIndex,
              !.guides = [vVisible |-> FALSE, vLeft |-> 0, hVisible |-> FALSE, hTop |-> 0],
              !.storage = [kind |-> "missing"], !.savedStates = [defined |-> FALSE],
              !.emitted = << >>]

\* C27: on a drag-move, what calculateSnap returns for the candidate is what
\* it returns in a state that keeps only the sibling boxes (same candidate,
\* threshold and workspace); and the step that called it leaves every other
\* element, the dragged element but for its left and top, the registry with
\* its flags, focus, zIndex counter, sessions and the stored document as they
\* were.
SnapIsPure ==
    [][ \A pt \in AllMovePoints :
           DragMove(pt) =>
              LET d == dragState
                  x == CandX(pt)
                  y == CandY(pt)
              IN /\ calculateSnap(S, d.id, x, y, d.width, d.height)
                       = calculateSnap(Bare, d.id, x, y, d.width, d.height)
                 /\ elements'[d.panel].left
                       = calculateSnap(Bare, d.id, x, y, d.width, d.height).snapX
                 /\ elements'[d.panel].top
                       = calculateSnap(Bare, d.id, x, y, d.width, d.height).snapY
                 /\ [elements' EXCEPT ![d.panel].left = 0, ![d.panel].top = 0]
                       = [elements EXCEPT ![d.panel].left = 0, ![d.panel].top = 0]
                 /\ UNCHANGED << panels, activePanel, topZIndex, dragState,
                                 resizeState, storage, savedStates >>
      ]_vars

\* a was shown and so given a zIndex and the focus, then b was pressed and
\* dragged from x = 290 and stands at a's right edge
C27_Witness ==
    /\ Dragging
    /\ dragState.id = "b"
    /\ dragState.startLeft = Px(290)
    /\ Ids(panels) = {"a", "b"}
    /\ ElementOf("a").zIndex # NoZ
    /\ ElementOf("a").left + ElementOf("a").width = Px(300)
    /\ elements[dragState.panel].left = Px(300)

\* C28 as stated: after a drag-move, a visible vertical guide is at the x
\* the panel was put at, and a visible horizontal guide at its y.
GuideAtSnappedPosition ==
    [][ \A pt \in AllMovePoints :
           DragMove(pt) =>
              /\ guides'.vVisible => guides'.vLeft = elements'[dragState.panel].left
              /\ guides'.hVisible => guides'.hTop = elements'[dragState.panel].top
      ]_vars

\* rule k of an axis aligns the far edge (right, bottom) of the moving panel
FarEdgeRule(k) == k = 2 \/ (k > 2 /\ (k - 3) % 4 \in {1, 3})

\* C28, amended: after a drag-move, a visible guide is at the line the last
\* matching rule of its axis aligned the panel with: at the panel's x (y)
\* when that rule aligns the panel's left (top) edge, at x + width
\* (y + height) when it aligns the panel's right (bottom) edge.
GuideAtAlignedEdge ==
    [][ \A pt \in AllMovePoints :
           DragMove(pt) =>
              LET d == dragState
                  lastX == Last(Matching(XRules(pt)))
                  lastY == Last(Matching(YRules(pt)))
              IN /\ guides'.vVisible =>
                       /\ lastX > 0
                       /\ guides'.vLeft = XRules(pt)[lastX].pos
                       /\ guides'.vLeft = elements'[d.panel].left
                                           + (IF FarEdgeRule(lastX) THEN d.width ELSE 0)
                 /\ guides'.hVisible =>
                       /\ lastY > 0
                       /\ guides'.hTop = YRules(pt)[lastY].pos
                       /\ guides'.hTop = elements'[d.panel].top
                                          + (IF FarEdgeRule(lastY) THEN d.height ELSE 0)
      ]_vars

\* a was dragged to the workspace's right edge: it stands at workspace width
\* - 300 and the vertical guide is at the workspace width
C28_Witness ==
    /\ Dragging
    /\ dragState.id = "a"
    /\ dragState.width = Px(300)
    /\ elements[dragState.panel].left = WorkspaceWidth - Px(300)
    /\ guides.vVisible
    /\ guides.vLeft = WorkspaceWidth

\* C29: on a drag-move, an axis on which no rule matches keeps the
\* candidate's coordinate, and after the move the guide of an axis is visible
\* exactly when a rule of that axis matched on this move.
NoMatchNoSnapNoGuide ==
    [][ \A pt \in AllMovePoints :
           DragMove(pt) =>
              /\ Matching(XRules(pt)) = {} =>
                    elements'[dragState.panel].left = CandX(pt)
              /\ Matching(YRules(pt)) = {} =>
                    elements'[dragState.panel].top = CandY(pt)
              /\ guides'.vVisible <=> Matching(XRules(pt)) # {}
              /\ guides'.hVisible <=> Matching(YRules(pt)) # {}
      ]_vars

\* b was dragged 15 px right and down from (290, 0): it stands at a's right
\* edge with the vertical guide showing, and 15 px below the top, where
\* nothing matches, with no horizontal guide
C29_Witness ==
    /\ Dragging
    /\ dragState.id = "b"
    /\ dragState.startLeft = Px(290) /\ dragState.startTop = 0
    /\ elements[dragState.panel].left = Px(300)
    /\ elements[dragState.panel].top = Px(15)
    /\ guides.vVisible
    /\ ~guides.hVisible

\* the box a resize session r gives its panel when the pointer is dx, dy
\* from where it was pressed
ResizeBox(r, dx, dy) ==
    LET west == Includes(r.direction, "w")
        north == Includes(r.direction, "n")
        width == IF west THEN Max(r.minWidth, r.startWidth - dx)
                 ELSE IF Includes(r.direction, "e") THEN Max(r.minWidth, r.startWidth + dx)
                 ELSE r.startWidth
        height == IF north THEN Max(r.minHeight, r.startHeight - dy)
                  ELSE IF Includes(r.direction, "s")
                  THEN Max(r.minHeight, r.startHeight + dy)
                  ELSE r.startHeight
    IN [left |-> IF west /\ r.startWidth - dx > r.minWidth
                 THEN r.startLeft + dx ELSE r.startLeft,
        top |-> IF north /\ r.startHeight - dy > r.minHeight
                THEN r.startTop + dy ELSE r.startTop,
        width |-> width, height |-> height]

\* C30: a resize-move gives the session's panel the box that follows from
\* the session's origin box, handle and minimum size and the pointer's
\* distance from the press point alone, the same box as with no other panel
\* in the registry, and it leaves every other element and the registry as
\* they were.
ResizeNeverSnaps ==
    [][ \A pt \in MovePoints \cup ResizeMovePoints :
           (Resizing /\ ~Dragging /\ MouseMove(pt)) =>
              LET r == resizeState
                  box == ResizeBox(r, pt[1] - r.startX, pt[2] - r.startY)
                  alone == handleResize([Begin EXCEPT !.panels = << >>], pt[1], pt[2])
              IN /\ elements'[r.panel] =
                       [elements[r.panel] EXCEPT !.left = box.left, !.top = box.top,
                                                 !.width = box.width,
                                                 !.height = box.height]
                 /\ elements' = alone.elements
                 /\ \A el \in DOMAIN elements \ {r.panel} : elements'[el] = elements[el]
                 /\ UNCHANGED << panels, guides >>
      ]_vars

\* a, created at (100, 100), is being resized with its handle nw and its
\* left edge stands 10 px from the workspace's left edge, within the snap
\* threshold, while b is registered too
C30_Witness ==
    /\ Resizing
    /\ ~Dragging
    /\ resizeState.id = "a"
    /\ resizeState.direction = "nw"
    /\ Has(panels, "b")
    /\ elements[resizeState.panel].left = Px(10)
    /\ elements[resizeState.panel].width = Px(390)

\* C31: minimizePanel called on a registered panel sets its minimized flag
\* (and hides its element) and changes nothing else: the element's position,
\* size, zIndex and focus mark, the panel's maximized flag, saved bounds and
\* config, the active panel, the zIndex counter, every other panel and
\* element, the sessions, the guides and the stored document stay as they
\* are; called again on the state it leaves, it changes nothing.
MinimizeSetsOnlyMinimized ==
    [][ \A id \in PanelIds :
           (Has(panels, id) /\ MinimizePanel(id)) =>
              LET el == Get(panels, id).element
              IN /\ Get(panels', id).state =
                       [Get(panels, id).state EXCEPT !.minimized = TRUE]
                 /\ panels' = SetState(panels, id, Get(panels', id).state)
                 /\ elements' = AddClass(elements, el, "hidden")
                 /\ UNCHANGED << activePanel, topZIndex, dragState, resizeState,
                                 guides, storage, savedStates >>
                 /\ minimizePanel(S', id) = S'
      ]_vars

\* a panel that holds the focus and is maximized has been minimized, next to
\* another registered panel
C31_Witness ==
    /\ Ids(panels) = {"a", "b"}
    /\ Get(panels, "a").state.minimized
    /\ Get(panels, "a").state.maximized
    /\ FocusedIds = {"a"}
    /\ activePanel = "a"
    /\ "hidden" \in ElementOf("a").classes

\* the rectangle of saved bounds
Rectangle(prev) == <<prev.left, prev.top, prev.width, prev.height>>

\* this step leaves panel id registered with the element it had
StaysRegistered(id) ==
    /\ Has(panels, id)
    /\ Has(panels', id)
    /\ Get(panels', id).element = Get(panels, id).element

\* C32: the rectangle a restore gives a panel is the rectangle the panel had
\* immediately before the maximize, whatever is done to the panel in
\* between: a maximize saves the panel's rectangle, no step other than a
\* toggleMaximize of the panel changes the saved rectangle or the maximized
\* flag while the panel stays registered (drag, resize, minimize, show and
\* focus among them), and a restore gives the panel the saved rectangle.
RestoreReproducesSavedRectangle ==
    [][ \A id \in PanelIds :
           /\ (Has(panels, id) /\ ~Get(panels, id).state.maximized /\ ToggleMaximize(id)) =>
                 /\ Get(panels', id).state.maximized
                 /\ Rectangle(Get(panels', id).state.prevBounds) = Geometry(ElementOf(id))
           /\ (StaysRegistered(id) /\ Get(panels, id).state.maximized /\ ~ToggleMaximize(id)) =>
                 /\ Get(panels', id).state.maximized
                 /\ Get(panels', id).state.prevBounds = Get(panels, id).state.prevBounds
           /\ (Has(panels, id) /\ Get(panels, id).state.maximized /\ ToggleMaximize(id)) =>
                 /\ ~Get(panels', id).state.maximized
                 /\ Geometry(elements'[Get(panels', id).element]) =
                       Rectangle(Get(panels, id).state.prevBounds)
      ]_vars

\* panel a was maximized, then dragged while it filled the workspace (the
\* session started from the maximized box, and a move of it snapped to the
\* top edge) and then restored to the rectangle of before the maximize
C32_Witness ==
    /\ Has(panels, "a")
    /\ ~Get(panels, "a").state.maximized
    /\ Get(panels, "a").state.prevBounds # Null
    /\ Dragging
    /\ dragState.id = "a"
    /\ dragState.width = WorkspaceWidth
    /\ guides.hVisible
    /\ Geometry(ElementOf("a")) =
          <<Px(DefaultX), Px(DefaultY), Px(DefaultWidth), Px(DefaultHeight)>>

\* the box a session records as its origin
DragOrigin(d) == [left |-> d.startLeft, top |-> d.startTop,
                  width |-> d.width, height |-> d.height]
ResizeOrigin(r) == [left |-> r.startLeft, top |-> r.startTop,
                    width |-> r.startWidth, height |-> r.startHeight]

\* panel p is the focused panel, and its element has the highest zIndex
FocusedOnTop(p) ==
    /\ Has(panels, p)
    /\ FocusedIds = {p}
    /\ activePanel = p
    /\ \A el \in DOMAIN elements :
          el # Get(panels, p).element => elements[el].zIndex < ElementOf(p).zIndex

\* C33 as stated: immediately after a mousedown that starts a drag or a
\* resize on panel p, p is the focused panel with the highest zIndex, the
\* session names p, and the origin the session records is the pointer
\* position and the box of p at that instant and, for a resize, the handle
\* and the minimum size of p's config.
SessionStartFocusesAndRecordsOrigin ==
    [][ \A el \in DOMAIN elements, pt \in PressPoints :
           LET p == elements[el].id
           IN /\ MouseDownHeader(el, pt) =>
                    /\ FocusedOnTop(p)'
                    /\ dragState' # Null
                    /\ dragState'.id = p
                    /\ <<dragState'.startX, dragState'.startY>> = pt
                    /\ DragOrigin(dragState') = BoundingRect(elements', Get(panels', p).element)
              /\ \A direction \in PressHandles :
                    (MouseDownHandle(el, direction, pt) /\ resizeState' # Null) =>
                       /\ FocusedOnTop(p)'
                       /\ resizeState'.id = p
                       /\ resizeState'.direction = direction
                       /\ <<resizeState'.startX, resizeState'.startY>> = pt
                       /\ ResizeOrigin(resizeState') =
                             BoundingRect(elements', Get(panels', p).element)
                       /\ resizeState'.minWidth = Get(panels', p).config.minWidth
                       /\ resizeState'.minHeight = Get(panels', p).config.minHeight
      ]_vars

\* the config objects the hosts pass to createPanel in the current state
HostConfigs ==
    Configs \cup
    { LET saved == getSavedState(savedStates, EditorPanelId)
      IN [id |-> EditorPanelId,
          x |-> SavedOr(saved, "x", innerWidth - Px(EditorRightOffset)),
          y |-> SavedOr(saved, "y", Px(EditorDefaultY)),
          width |-> SavedOr(saved, "width", Px(EditorDefaultWidth)),
          height |-> SavedOr(saved, "height", Px(EditorDefaultHeight)),
          minWidth |-> Px(EditorMinWidth), minHeight |-> Px(EditorMinHeight)] }

\* this step is createPanel(config)
Creates(config) == Becomes(createPanel(Begin, config))

\* the state object of a panel that was just created
FreshState == [minimized |-> FALSE, maximized |-> FALSE, prevBounds |-> Null]

\* C34: createPanel with an id that is already in the registry completes
\* and replaces the registry entry: the registry keeps its other entries and
\* holds exactly one entry for the id, with the options of the new config
\* (defaults filled in), the new element, minimized = false, maximized =
\* false and prevBounds = null.
DuplicateIdReplacesEntry ==
    [][ \A config \in HostConfigs :
           (Creates(config) /\ Has(panels, config.id)) =>
              /\ Len(panels') = Len(panels)
              /\ Cardinality({i \in 1..Len(panels') : panels'[i].id = config.id}) = 1
              /\ \A i \in 1..Len(panels) :
                    panels[i].id # config.id => panels'[i] = panels[i]
              /\ Get(panels', config.id).state = FreshState
              /\ Get(panels', config.id).config =
                    [minWidth |-> Opt(config, "minWidth", Px(DefaultMinWidth)),
                     minHeight |-> Opt(config, "minHeight", Px(DefaultMinHeight)),
                     resizable |-> Opt(config, "resizable", TRUE),
                     closable |-> Opt(config, "closable", TRUE)]
              /\ Get(panels', config.id).element = Len(elements) + 1
              /\ elements'[Len(elements) + 1].inDOM
              /\ events' = events + 1
      ]_vars

\* panel a, created with the default minimum size and then maximized, was
\* created again by the code editor with its own minimum size: the registry
\* holds one entry for a, not maximized, with the editor's config and the
\* second element
C34_Witness ==
    /\ Len(elements) = 2
    /\ elements[1].id = "a"
    /\ "maximized" \in elements[1].classes
    /\ Len(panels) = 1
    /\ panels[1].id = "a"
    /\ panels[1].element = 2
    /\ panels[1].state = FreshState
    /\ panels[1].config.minWidth = Px(EditorMinWidth)

\* C35 as stated: while a drag session or a resize session is active, the
\* panel it targets is in the registry: the registry holds the session's id,
\* with the session's element.
SessionTargetRegistered ==
    /\ Dragging =>
          /\ Has(panels, dragState.id)
          /\ Get(panels, dragState.id).element = dragState.panel
    /\ Resizing =>
          /\ Has(panels, resizeState.id)
          /\ Get(panels, resizeState.id).element = resizeState.panel

\* C36 as stated: activePanel is null, or the id of a panel of the registry
\* that is the focused panel.
ActivePanelIsFocusedPanel ==
    activePanel # NoId =>
       /\ Has(panels, activePanel)
       /\ FocusedIds = {activePanel}

StoredOnlyBySaves ==
    [][ /\ storage' # storage => Saves
        /\ ( \/ \E config \in Configs : CreatePanel(config)
             \/ \E id \in CallIds :
                   \/ FocusPanel(id)
                   \/ MinimizePanel(id)
                   \/ ShowPanel(id)
                   \/ ToggleMaximize(id)
             \/ \E pt \in MovePoints : MouseMove(pt)
             \/ MouseUp /\ Idle ) => storage' = storage
      ]_vars

\* the layout was stored at the end of a session, and panel a was maximized
\* and minimized afterwards: the stored document still holds a as neither
C38_Witness ==
    /\ storage.kind = "json"
    /\ Has(panels, "a")
    /\ "a" \in DOMAIN storage.doc
    /\ ~storage.doc["a"].maximized
    /\ ~storage.doc["a"].minimized
    /\ Get(panels, "a").state.maximized
    /\ Get(panels, "a").state.minimized
    /\ Idle

\* what showPanel does to a registered panel: the panel is not minimized,
\* it is the one focused panel and its element has the highest zIndex, and
\* its geometry, maximized flag and saved bounds are as before
ShowPanelEffect ==
    \A id \in PanelIds :
       (Has(panels, id) /\ ShowPanel(id)) =>
          /\ ~Get(panels', id).state.minimized
          /\ "hidden" \notin elements'[Get(panels', id).element].classes
          /\ FocusedOnTop(id)'
          /\ Geometry(elements'[Get(panels', id).element]) = Geometry(ElementOf(id))
          /\ Get(panels', id).state.maximized = Get(panels, id).state.maximized
          /\ Get(panels', id).state.prevBounds = Get(panels, id).state.prevBounds

\* showPanel called on the state a minimizePanel of panel id leaves gives
\* the panel the minimized flag and the geometry it had before the
\* minimizePanel
ShowUndoesMinimize(id) ==
    LET shown == showPanel(S', id)
    IN /\ Get(shown.panels, id).state.minimized = Get(panels, id).state.minimized
       /\ Geometry(shown.elements[Get(shown.panels, id).element]) = Geometry(ElementOf(id))

\* C39 as stated: showPanel on a registered panel has the effect above, and
\* minimizePanel followed by showPanel restores the minimized flag and the
\* geometry of any registered panel.
ShowFocusesAndUndoesMinimize ==
    [][ /\ ShowPanelEffect
        /\ \A id \in PanelIds :
              (Has(panels, id) /\ MinimizePanel(id)) => ShowUndoesMinimize(id)
      ]_vars

\* C39 as amended: showPanel on a registered panel has the effect above, and
\* minimizePanel followed by showPanel restores the minimized flag and the
\* geometry of a registered panel that was not minimized.
ShowFocusesAndUndoesMinimizeOfShown ==
    [][ /\ ShowPanelEffect
        /\ \A id \in PanelIds :
              (Has(panels, id) /\ ~Get(panels, id).state.minimized /\ MinimizePanel(id)) =>
                 ShowUndoesMinimize(id)
      ]_vars

\* panel a, maximized, was shown after panel b had held the focus: a is not
\* minimized, still maximized with its saved bounds, and alone focused on top
C39_Witness ==
    /\ Ids(panels) = {"a", "b"}
    /\ ElementOf("b").zIndex # NoZ
    /\ FocusedIds = {"a"}
    /\ ElementOf("a").zIndex = topZIndex
    /\ ElementOf("a").zIndex > ElementOf("b").zIndex
    /\ ~Get(panels, "a").state.minimized
    /\ Get(panels, "a").state.maximized
    /\ Get(panels, "a").state.prevBounds # Null
    /\ Idle

\* the horizontal and the vertical part of what calculateSnap returns
Horizontal(r) == <<r.snapX, r.snappedV, r.snapPosV>>
Vertical(r) == <<r.snapY, r.snappedH, r.snapPosH>>

\* the program state with the style box of every element moved by (dx, dy)
\* and grown by (dw, dh)
BoxesChanged(dx, dy, dw, dh) ==
    [S EXCEPT !.elements =
        [el \in DOMAIN elements |->
           [elements[el] EXCEPT !.left = @ + dx, !.top = @ + dy,
                                !.width = @ + dw, !.height = @ + dh]]]

\* changes along one axis: to the candidate's coordinate and length, and to
\* the near edge and the length of the other panels
AxisChanges ==
    { [pos |-> Px(300), len |-> 0, edge |-> 0, grow |-> 0],
      [pos |-> 0, len |-> Px(100), edge |-> 0, grow |-> 0],
      [pos |-> 0, len |-> 0, edge |-> Px(250), grow |-> Px(40)],
      [pos |-> -Px(7), len |-> Px(100), edge |-> Px(250), grow |-> 0] }

\* C40: on a drag-move, the horizontal part of what calculateSnap returns
\* for the candidate (snapX, the vertical guide's flag and position) is the
\* same for any other candidate y and height and any other top and bottom
\* edges of the other panels, and the vertical part (snapY, the horizontal
\* guide's flag and position) is the same for any other candidate x and
\* width and any other left and right edges of the other panels.
SnapAxesIndependent ==
    [][ \A pt \in AllMovePoints :
           DragMove(pt) =>
              LET d == dragState
                  x == CandX(pt)
                  y == CandY(pt)
                  here == calculateSnap(S, d.id, x, y, d.width, d.height)
              IN \A c \in AxisChanges :
                    /\ Horizontal(calculateSnap(BoxesChanged(0, c.edge, 0, c.grow), d.id,
                                                x, y + c.pos, d.width, d.height + c.len))
                          = Horizontal(here)
                    /\ Vertical(calculateSnap(BoxesChanged(c.edge, 0, c.grow, 0), d.id,
                                              x + c.pos, y, d.width + c.len, d.height))
                          = Vertical(here)
      ]_vars

\* b is dragged along the top edge and stands edge to edge above c, which
\* lies wholly below it: the vertical guide is at c's right edge, the edge
\* of the last rule that matched
C40_Witness ==
    /\ Dragging
    /\ dragState.id = "b"
    /\ Has(panels, "c")
    /\ "hidden" \notin ElementOf("c").classes
    /\ elements[dragState.panel].top + dragState.height <= ElementOf("c").top
    /\ elements[dragState.panel].left = ElementOf("c").left
    /\ guides.vVisible
    /\ guides.vLeft = ElementOf("c").left + ElementOf("c").width

=============================================================================
